---- MODULE Spec2Model ----
(***************************************************************************)
(* State-machine model of tkestack/volume-decorator: the PVCR lifecycle    *)
(* engine (status-mirror, mounted-nodes, usage and recycler controllers),  *)
(* the volume manager (Status / Attach) and the admission gate.            *)
(*                                                                         *)
(* All objects live in one namespace ("ns1"), so object keys are names.    *)
(* The Kubernetes API server is the environment: an Update carries the     *)
(* resourceVersion of the object it was derived from (DeepCopy keeps the   *)
(* ObjectMeta) and is refused with a Conflict when the stored object has   *)
(* changed since.  The API server assigns a new resourceVersion exactly    *)
(* when a write changes the stored object, so the version of an object is  *)
(* represented by its content: a lister copy is stale iff it differs from  *)
(* the stored object.                                                      *)
(***************************************************************************)
EXTENDS Integers, Sequences, FiniteSets, TLC

VARIABLES
    now,        \* wall clock, seconds
    pvc,        \* PVC lister: claim name -> PVC (with its PV resolved) or NoObj
    api,        \* PVCR objects stored by the API server: claim name -> PVCR or NoObj
    lister,     \* PVCR lister cache: claim name -> PVCR or NoObj (may lag behind api)
    cluster,    \* workloads that exist in the cluster, as <<kind, name>> keys
    probeNodes, \* what the volume probe's MountedNodes currently reports, per claim
    probeUsage, \* what the volume probe's Usage currently reports, per claim
    last,       \* the response to the admission request handled most recently
    input,      \* argument of the pure function under check
    output      \* its result

vars == <<now, pvc, api, lister, cluster, probeNodes, probeUsage, last, input, output>>

----------------------------------------------------------------------------
(* Bounds of the model *)

MaxTicks == 1
MaxEntries == 2
MaxReplicas == 3
MaxRecycleTicks == 2
MaxStatuses == 3
MaxFailures == 2
MaxMDS == 2

----------------------------------------------------------------------------
(* Data *)

Nil == 0 - 1

NoObj == [kind |-> "none"]

Claims == {"a", "b"}
ClaimStatusCreating == "Creating"
ClaimStatusExpanding == "Expanding"
ClaimStatusAvailable == "Available"
ClaimStatusInUse == "InUse"
ClaimStatusLost == "Lost"
ClaimStatusDeleting == "Deleting"

ClaimPending == "Pending"
ClaimBound == "Bound"
ClaimLost == "Lost"

resizeConditions == {"Resizing", "FileSystemResizePending"}

\* pkg/types volume types; the registry built by volume.New from --volume-types.
CephRBD == "cephrbd"
CephFS == "cephfs"
TencentCBS == "tencentcbs"
volumes == {CephRBD, CephFS, TencentCBS}

\* What a claim's volumeName resolves to: no PV (empty name or PV not in the
\* lister), a PV without CSI section, or a CSI PV with the given driver.
NoPV == "nil"
NotCSI == "nocsi"

\* Recycler grace delay and period, seconds.
workloadCheckDelay == 10
workloadCheckInterval == 10

\* metav1.Status.Code of a success response: markResponseAsSuccess leaves it unset.
CodeUnset == 0
StatusOK == 200
StatusBadRequest == 400
StatusNotFound == 404
StatusConflict == 409
StatusInternalServerError == 500

\* Errors.  A "status error" (*k8serrors.StatusError) carries its own code.
ErrNil == "nil"
StatusErrors == {"PVCNotFound", "PVCRNotFound", "NotCSIVolume", "UnsupportedVolumeType",
                 "ReplicasReadWrite", "MoreThanOneReadWrite", "Conflict"}
IrrelevantWorkload == "IrrelevantWorkload"

ErrorCode(err) ==
    CASE err \in {"PVCNotFound", "PVCRNotFound"} -> StatusNotFound
      [] err \in {"NotCSIVolume", "UnsupportedVolumeType",
                  "ReplicasReadWrite", "MoreThanOneReadWrite"} -> StatusBadRequest
      [] err = "Conflict" -> StatusConflict
      [] OTHER -> StatusInternalServerError

----------------------------------------------------------------------------
(* Sequence helpers *)

Range(s) == {s[i] : i \in 1..Len(s)}

RECURSIVE SelectSeqBy(_, _)
SelectSeqBy(s, keep) ==
    IF s = <<>> THEN <<>>
    ELSE (IF keep[1] THEN <<Head(s)>> ELSE <<>>)
         \o SelectSeqBy(Tail(s), [i \in 1..(Len(s) - 1) |-> keep[i + 1]])

----------------------------------------------------------------------------
(* Object references and PVCR workload entries *)

\* corev1.ObjectReference.String(): the generated stringer prints every
\* field (Kind, Namespace, Name, UID, APIVersion, ...).
ObjectReferenceString(ref) == <<ref.kind, "ns1", ref.name, ref.uid, ref.apiVersion>>

sameWorkload(w1, w2) == ObjectReferenceString(w1.ref) = ObjectReferenceString(w2.ref)

EmptySpec == [statuses |-> <<>>, workloads |-> <<>>, usageBytes |-> 0, mountedNodes |-> <<>>]

NewPVCR(owner, statuses) ==
    [kind |-> "pvcr", owner |-> owner, spec |-> [EmptySpec EXCEPT !.statuses = statuses]]

----------------------------------------------------------------------------
(* Volume probes *)

blockVolumeAvailableNoScan(workload, pvcr) ==
    IF workload.readOnly THEN ErrNil
    ELSE IF workload.replicas # Nil /\ workload.replicas > 1 THEN "ReplicasReadWrite"
    ELSE ErrNil

blockVolumeAvailableNoReplicas(workload, pvcr) ==
    IF workload.readOnly THEN ErrNil
    ELSE IF \E i \in 1..Len(pvcr.spec.workloads) : ~pvcr.spec.workloads[i].readOnly
         THEN "MoreThanOneReadWrite"
    ELSE ErrNil

blockVolumeAvailable(workload, pvcr) ==
    IF workload.readOnly THEN ErrNil
    ELSE IF workload.replicas # Nil /\ workload.replicas > 1 THEN "ReplicasReadWrite"
    ELSE IF \E i \in 1..Len(pvcr.spec.workloads) : ~pvcr.spec.workloads[i].readOnly
         THEN "MoreThanOneReadWrite"
    ELSE ErrNil

cephFSVolumeAvailable(workload, pvcr) == ErrNil

\* volume.Available dispatched on the probe registered for the driver.
Available(driver, workload, pvcr) ==
    IF driver = CephFS THEN cephFSVolumeAvailable(workload, pvcr)
    ELSE blockVolumeAvailable(workload, pvcr)

----------------------------------------------------------------------------
(* Volume manager *)

Repeat(x, n) == [i \in 1..n |-> x]

getPVCStatusAlwaysInUse(p, pv, pvcr) ==
    IF p.deleting THEN <<ClaimStatusDeleting>>
    ELSE IF p.phase = ClaimPending THEN <<ClaimStatusCreating>>
    ELSE IF p.phase = ClaimLost THEN <<ClaimStatusLost>>
    ELSE IF pv = NoPV THEN <<ClaimStatusLost>>
    ELSE <<ClaimStatusInUse>>
         \o Repeat(ClaimStatusExpanding, Cardinality(p.conditions \cap resizeConditions))

getPVCStatusNoCreating(p, pv, pvcr) ==
    IF p.deleting THEN <<ClaimStatusDeleting>>
    ELSE IF p.phase = ClaimLost THEN <<ClaimStatusLost>>
    ELSE IF pv = NoPV THEN <<ClaimStatusLost>>
    ELSE (IF pvcr # NoObj /\ Len(pvcr.spec.workloads) > 0
            THEN <<ClaimStatusInUse>> ELSE <<ClaimStatusAvailable>>)
         \o Repeat(ClaimStatusExpanding, Cardinality(p.conditions \cap resizeConditions))

getPVCStatusPhaseFirst(p, pv, pvcr) ==
    IF p.phase = ClaimPending THEN <<ClaimStatusCreating>>
    ELSE IF p.deleting THEN <<ClaimStatusDeleting>>
    ELSE IF p.phase = ClaimLost THEN <<ClaimStatusLost>>
    ELSE IF pv = NoPV THEN <<ClaimStatusLost>>
    ELSE (IF pvcr # NoObj /\ Len(pvcr.spec.workloads) > 0
            THEN <<ClaimStatusInUse>> ELSE <<ClaimStatusAvailable>>)
         \o Repeat(ClaimStatusExpanding, Cardinality(p.conditions \cap resizeConditions))

getPVCStatusNoPVCheck(p, pv, pvcr) ==
    IF p.deleting THEN <<ClaimStatusDeleting>>
    ELSE IF p.phase = ClaimPending THEN <<ClaimStatusCreating>>
    ELSE IF p.phase = ClaimLost THEN <<ClaimStatusLost>>
    ELSE (IF pvcr # NoObj /\ Len(pvcr.spec.workloads) > 0
            THEN <<ClaimStatusInUse>> ELSE <<ClaimStatusAvailable>>)
         \o Repeat(ClaimStatusExpanding, Cardinality(p.conditions \cap resizeConditions))

\* p.conditions is the set of condition types whose status is True; one
\* Expanding is appended per true resize condition.
getPVCStatus(p, pv, pvcr) ==
    IF p.deleting THEN <<ClaimStatusDeleting>>
    ELSE IF p.phase = ClaimPending THEN <<ClaimStatusCreating>>
    ELSE IF p.phase = ClaimLost THEN <<ClaimStatusLost>>
    ELSE IF pv = NoPV THEN <<ClaimStatusLost>>
    ELSE (IF pvcr # NoObj /\ Len(pvcr.spec.workloads) > 0
            THEN <<ClaimStatusInUse>> ELSE <<ClaimStatusAvailable>>)
         \o Repeat(ClaimStatusExpanding, Cardinality(p.conditions \cap resizeConditions))

\* manager.Status over the listers P (PVCs) and L (PVCRs).
Status(P, L, name) ==
    IF P[name] = NoObj THEN [err |-> "PVCNotFound", statuses |-> <<>>]
    ELSE [err |-> ErrNil, statuses |-> getPVCStatus(P[name], P[name].pv, L[name])]

getVolume(P, name) ==
    IF P[name] = NoObj THEN "PVCNotFound"
    ELSE IF P[name].pv = NoPV THEN "VolumeStillCreating"
    ELSE IF P[name].pv = NotCSI THEN "NotCSIVolume"
    ELSE IF P[name].pv \notin volumes THEN "UnsupportedVolumeType"
    ELSE ErrNil

AttachNoStatus(P, A, L, w, name) ==
    LET verr == getVolume(P, name)
        pvcr == L[name]
    IN  IF verr # ErrNil THEN [err |-> verr, api |-> A]
        ELSE IF pvcr = NoObj THEN [err |-> "PVCRNotFound", api |-> A]
        ELSE IF \E i \in 1..Len(pvcr.spec.workloads) : sameWorkload(w, pvcr.spec.workloads[i])
             THEN [err |-> ErrNil, api |-> A]
        ELSE IF Available(P[name].pv, w, pvcr) # ErrNil
             THEN [err |-> Available(P[name].pv, w, pvcr), api |-> A]
        ELSE IF A[name] # pvcr THEN [err |-> "Conflict", api |-> A]
        ELSE [err |-> ErrNil,
              api |-> [A EXCEPT ![name] = [pvcr EXCEPT !.spec.workloads = Append(@, w)]]]

UpdateErrNever(A, name, old) == ErrNil

\* PersistentVolumeClaimRuntimes(ns).Update: refused when the object the
\* update was derived from is no longer the stored one.
UpdateErr(A, name, old) == IF A[name] = old THEN ErrNil ELSE "Conflict"

AttachCreatesMissing(P, A, L, w, name) ==
    LET verr == getVolume(P, name)
    IN  IF verr # ErrNil THEN [err |-> verr, api |-> A]
        ELSE IF L[name] = NoObj
             THEN [err |-> ErrNil,
                   api |-> [A EXCEPT ![name] =
                              [NewPVCR(NoObj, <<>>) EXCEPT !.spec.workloads = <<w>>]]]
        ELSE AttachNoStatus(P, A, L, w, name)

\* manager.Attach; returns the error and the API server's PVCR store after it.
Attach(P, A, L, w, name) ==
    LET verr == getVolume(P, name)
        pvcr == L[name]
    IN  IF verr # ErrNil THEN [err |-> verr, api |-> A]
        ELSE IF pvcr = NoObj THEN [err |-> "PVCRNotFound", api |-> A]
        ELSE IF \E i \in 1..Len(pvcr.spec.workloads) : sameWorkload(w, pvcr.spec.workloads[i])
             THEN [err |-> ErrNil, api |-> A]
        ELSE IF Available(P[name].pv, w, pvcr) # ErrNil
             THEN [err |-> Available(P[name].pv, w, pvcr), api |-> A]
        ELSE LET appended == [pvcr EXCEPT !.spec.workloads = Append(@, w)]
                 newPVCR  == [appended EXCEPT
                                !.spec.statuses = getPVCStatus(P[name], P[name].pv, appended)]
             IN  IF UpdateErr(A, name, pvcr) # ErrNil
                 THEN [err |-> "Conflict", api |-> A]
                 ELSE [err |-> ErrNil, api |-> [A EXCEPT ![name] = newPVCR]]

----------------------------------------------------------------------------
(* Workload adapters and dispatcher *)

Create == "CREATE"
Update == "UPDATE"

podGVK == <<"", "v1", "Pod">>
deploymentGVK == <<"apps", "v1", "Deployment">>
replicaSetGVK == <<"apps", "v1", "ReplicaSet">>
statefulSetGVK == <<"apps", "v1", "StatefulSet">>
daemonSetGVK == <<"apps", "v1", "DaemonSet">>
jobGVK == <<"batch", "v1", "Job">>
tappGVK == <<"apps.tkestack.io", "v1", "TApp">>

appGVKs == {deploymentGVK, replicaSetGVK, statefulSetGVK, daemonSetGVK}

\* compositeManager.managers (TApp support installed).
managers == {podGVK, jobGVK, tappGVK} \cup appGVKs

getManager(gvk) == IF gvk \in managers THEN ErrNil ELSE "NoAvailableAdmitor"

\* APIVersion each adapter writes into the object reference it emits.
RefAPIVersion(gvk) ==
    CASE gvk \in appGVKs -> <<"apps", "v1">>
      [] gvk = jobGVK -> <<"batch", "v1">>
      [] gvk = podGVK -> <<"v1">>
      [] gvk = tappGVK -> <<"tke.cloud.tencent.com", "v1">>

ClaimNames(vols) == {vols[i].claimName : i \in 1..Len(vols)}

\* filterVolumes(filter, specs...): the claims of specs not named in filter.
filterVolumes(filter, vols) ==
    SelectSeqBy(vols, [i \in 1..Len(vols) |-> vols[i].claimName \notin ClaimNames(filter)])

HandleResult(err, w, used, released) ==
    [err |-> err, w |-> w, used |-> used, released |-> released]

NoWorkload == [ref |-> [apiVersion |-> <<>>, kind |-> "", name |-> "", uid |-> 0], replicas |-> Nil]

HandleFail(err) == HandleResult(err, NoWorkload, <<>>, <<>>)

WorkloadOf(req, replicas) ==
    [ref |-> [apiVersion |-> RefAPIVersion(req.gvk), kind |-> req.gvk[3],
              name |-> req.name, uid |-> req.uid],
     replicas |-> replicas]

\* appManager.Handle (Deployment, ReplicaSet, StatefulSet, DaemonSet).
\* getReplicasAndPodSpec: a DaemonSet spec has no Replicas field.
appManagerHandle(req) ==
    IF ~req.decodable THEN HandleFail("DecodeFailed")
    ELSE IF req.controller THEN HandleFail(IrrelevantWorkload)
    ELSE IF req.operation = Update /\ ~req.oldDecodable THEN HandleFail("DecodeFailed")
    ELSE HandleResult(ErrNil,
            WorkloadOf(req, IF req.gvk = daemonSetGVK THEN Nil ELSE req.replicas),
            req.volumes,
            IF req.operation = Update THEN filterVolumes(req.volumes, req.oldVolumes) ELSE <<>>)

\* jobManager.Handle: no owner-reference check; a finished Job on Update
\* sets usedVolumes = nil and then releasedVolumes = usedVolumes.
jobManagerHandle(req) ==
    IF ~req.decodable THEN HandleFail("DecodeFailed")
    ELSE IF req.operation = Update /\ req.finished
         THEN HandleResult(ErrNil, WorkloadOf(req, req.replicas), <<>>, <<>>)
    ELSE IF req.operation = Update /\ ~req.oldDecodable THEN HandleFail("DecodeFailed")
    ELSE HandleResult(ErrNil, WorkloadOf(req, req.replicas), req.volumes,
            IF req.operation = Update THEN filterVolumes(req.volumes, req.oldVolumes) ELSE <<>>)

podManagerHandle(req) ==
    IF ~req.decodable THEN HandleFail("DecodeFailed")
    ELSE IF req.controller THEN HandleFail(IrrelevantWorkload)
    ELSE IF req.operation = Update /\ req.finished
         THEN HandleResult(ErrNil, WorkloadOf(req, 1), <<>>, <<>>)
    ELSE IF req.operation = Update /\ ~req.oldDecodable THEN HandleFail("DecodeFailed")
    ELSE HandleResult(ErrNil, WorkloadOf(req, 1), req.volumes,
            IF req.operation = Update THEN filterVolumes(req.volumes, req.oldVolumes) ELSE <<>>)

\* tappManager.Handle: no owner-reference check; on Update the released
\* set is filtered from the pod specs of the new TApp.
tappManagerHandle(req) ==
    IF ~req.decodable THEN HandleFail("DecodeFailed")
    ELSE IF req.operation = Update /\ req.finished
         THEN HandleResult(ErrNil, WorkloadOf(req, 1), <<>>, <<>>)
    ELSE IF req.operation = Update /\ ~req.oldDecodable THEN HandleFail("DecodeFailed")
    ELSE HandleResult(ErrNil, WorkloadOf(req, 1), req.volumes,
            IF req.operation = Update THEN filterVolumes(req.volumes, req.volumes) ELSE <<>>)

\* compositeManager.Handle
Handle(req) ==
    IF getManager(req.gvk) # ErrNil THEN HandleFail(getManager(req.gvk))
    ELSE CASE req.gvk \in appGVKs -> appManagerHandle(req)
           [] req.gvk = jobGVK -> jobManagerHandle(req)
           [] req.gvk = podGVK -> podManagerHandle(req)
           [] req.gvk = tappGVK -> tappManagerHandle(req)

IsIgnoreNever(err) == FALSE

IsIgnore(err) == err = IrrelevantWorkload

----------------------------------------------------------------------------
(* Admission gate *)

statusFromError(err) ==
    IF err \in StatusErrors THEN ErrorCode(err) ELSE StatusInternalServerError

RECURSIVE attachLoopLastError(_, _, _, _, _, _, _, _)
attachLoopLastError(P, A, L, w, used, sync, t, i) ==
    IF i > Len(used) THEN [err |-> ErrNil, api |-> A, lister |-> L, attempted |-> i - 1]
    ELSE LET L1 == IF sync[i] THEN A ELSE L
             r  == Attach(P, A, L1,
                          [ref |-> w.ref, readOnly |-> used[i].readOnly,
                           replicas |-> w.replicas, timestamp |-> t],
                          used[i].claimName)
         IN  IF i = Len(used)
             THEN [err |-> r.err, api |-> r.api, lister |-> L1, attempted |-> i]
             ELSE attachLoopLastError(P, r.api, L1, w, used, sync, t, i + 1)

RECURSIVE attachLoopRollback(_, _, _, _, _, _, _, _)
attachLoopRollback(P, A, L, w, used, sync, t, i) ==
    IF i > Len(used) THEN [err |-> ErrNil, api |-> A, lister |-> L, attempted |-> i - 1]
    ELSE LET L1 == IF sync[i] THEN A ELSE L
             r  == Attach(P, A, L1,
                          [ref |-> w.ref, readOnly |-> used[i].readOnly,
                           replicas |-> w.replicas, timestamp |-> t],
                          used[i].claimName)
             earlier == {used[j].claimName : j \in 1..(i - 1)}
             undone == [c \in Claims |->
                          IF c \in earlier /\ r.api[c] # NoObj
                          THEN [r.api[c] EXCEPT !.spec.workloads =
                                  SelectSeq(@, LAMBDA e : e.ref # w.ref)]
                          ELSE r.api[c]]
         IN  IF r.err # ErrNil
             THEN [err |-> r.err, api |-> undone, lister |-> L1, attempted |-> i]
             ELSE attachLoopRollback(P, r.api, L1, w, used, sync, t, i + 1)

\* The loop of handleWorkload over usedVolumes, from the i-th volume on.
\* sync[i] tells whether the PVCR informer has delivered the pending events
\* to the lister before the i-th Attach reads it.
RECURSIVE attachLoop(_, _, _, _, _, _, _, _)
attachLoop(P, A, L, w, used, sync, t, i) ==
    IF i > Len(used) THEN [err |-> ErrNil, api |-> A, lister |-> L, attempted |-> i - 1]
    ELSE LET L1 == IF sync[i] THEN A ELSE L
             r  == Attach(P, A, L1,
                          [ref |-> w.ref, readOnly |-> used[i].readOnly,
                           replicas |-> w.replicas, timestamp |-> t],
                          used[i].claimName)
         IN  IF r.err # ErrNil
             THEN [err |-> r.err, api |-> r.api, lister |-> L1, attempted |-> i]
             ELSE attachLoop(P, r.api, L1, w, used, sync, t, i + 1)

\* admitor.handleWorkload: the response and the PVCR store / lister after it.
handleWorkload(P, A, L, req, sync, t) ==
    LET h == Handle(req)
    IN  IF h.err # ErrNil
        THEN [api |-> A, lister |-> L, handleErr |-> h.err, attachErr |-> ErrNil,
              attempted |-> 0,
              allowed |-> IsIgnore(h.err),
              code |-> IF IsIgnore(h.err) THEN CodeUnset ELSE StatusInternalServerError]
        ELSE LET r == attachLoop(P, A, L, h.w, h.used, sync, t, 1)
             IN  [api |-> r.api, lister |-> r.lister, handleErr |-> ErrNil,
                  attachErr |-> r.err, attempted |-> r.attempted,
                  allowed |-> r.err = ErrNil,
                  code |-> IF r.err = ErrNil THEN CodeUnset ELSE statusFromError(r.err)]

----------------------------------------------------------------------------
(* Controllers *)

replacePVCStatusAlwaysAppend(statuses, oldStatus, newStatus) ==
    Append(SelectSeq(statuses, LAMBDA x : x # oldStatus), newStatus)

replacePVCStatusFirstOnly(statuses, oldStatus, newStatus) ==
    LET first == IF \E i \in 1..Len(statuses) : statuses[i] = oldStatus
                 THEN CHOOSE i \in 1..Len(statuses) :
                        /\ statuses[i] = oldStatus
                        /\ \A j \in 1..(i - 1) : statuses[j] # oldStatus
                 ELSE 0
        result == [i \in 1..(Len(statuses) - (IF first = 0 THEN 0 ELSE 1)) |->
                      IF first = 0 \/ i < first THEN statuses[i] ELSE statuses[i + 1]]
    IN  IF \E i \in 1..Len(result) : result[i] = newStatus
        THEN result ELSE Append(result, newStatus)

\* replacePVCStatus(statuses, oldStatus, newStatus)
replacePVCStatus(statuses, oldStatus, newStatus) ==
    LET result == SelectSeq(statuses, LAMBDA x : x # oldStatus)
    IN  IF \E i \in 1..Len(result) : result[i] = newStatus
        THEN result ELSE Append(result, newStatus)

\* updatePVCStatus(pvcr)
updatePVCStatus(pvcr) ==
    IF Len(pvcr.spec.workloads) = 0 /\ Len(pvcr.spec.mountedNodes) = 0
    THEN [pvcr EXCEPT !.spec.statuses =
            replacePVCStatus(@, ClaimStatusInUse, ClaimStatusAvailable)]
    ELSE pvcr

\* arrayEqual(a1, a2)
arrayEqual(a1, a2) ==
    /\ Len(a1) = Len(a2)
    /\ \A i \in 1..Len(a2) : a2[i] \in Range(a1)

\* objRefToGVK(ref).  An apiVersion string is held as its "/"-separated
\* segments ("apps/v1" is <<"apps", "v1">>, "v1" is <<"v1">>); SplitN(.., 2)
\* cuts at the first "/".
objRefToGVK(ref) ==
    IF Len(ref.apiVersion) > 1
    THEN <<ref.apiVersion[1], ref.apiVersion[2], ref.kind>>
    ELSE <<"", ref.apiVersion[1], ref.kind>>

\* compositeManager.Exist(ref) against the workloads in the cluster; the
\* adapters look the object up by namespace and name.  apiErr: the live
\* API lookup of the Pod adapter failed.
Exist(C, ref, apiErr) ==
    IF getManager(objRefToGVK(ref)) # ErrNil THEN [exist |-> FALSE, err |-> "NoAvailableAdmitor"]
    ELSE IF objRefToGVK(ref) = podGVK /\ apiErr THEN [exist |-> FALSE, err |-> "APIError"]
    ELSE [exist |-> <<ref.kind, ref.name>> \in C, err |-> ErrNil]

keptWorkloadsErrorAsGone(C, workloads, apiErr, t) ==
    SelectSeqBy(workloads,
        [i \in 1..Len(workloads) |->
            LET e == Exist(C, workloads[i].ref, apiErr)
            IN  e.exist \/ workloads[i].timestamp + workloadCheckDelay > t])

\* The filter loop of workloadRecycler.syncPVCR.
keptWorkloads(C, workloads, apiErr, t) ==
    SelectSeqBy(workloads,
        [i \in 1..Len(workloads) |->
            LET e == Exist(C, workloads[i].ref, apiErr)
                exist == IF e.err # ErrNil THEN TRUE ELSE e.exist
            IN  exist \/ workloads[i].timestamp + workloadCheckDelay > t])

----------------------------------------------------------------------------
(* Inputs of the model *)

Volume(c, ro) == [claimName |-> c, readOnly |-> ro]

\* Volume lists of the submitted pod templates.
VolumeLists ==
    {<<Volume("a", FALSE)>>, <<Volume("a", TRUE)>>,
     <<Volume("a", FALSE), Volume("b", FALSE)>>, <<Volume("b", FALSE), Volume("a", FALSE)>>,
     <<Volume("a", TRUE), Volume("a", FALSE)>>}

Request(gvk, name, uid, op, controller, replicas, vols, finished) ==
    [gvk |-> gvk, name |-> name, uid |-> uid, operation |-> op, controller |-> controller,
     replicas |-> replicas, volumes |-> vols, oldVolumes |-> vols, finished |-> finished,
     decodable |-> TRUE, oldDecodable |-> TRUE]

\* Admission requests submitted to the gate.
GateRequests ==
    {Request(deploymentGVK, "web", 1, op, FALSE, n, v, FALSE) :
        op \in {Create, Update}, n \in {1, 2}, v \in VolumeLists}
    \cup {Request(daemonSetGVK, "ds", 1, Create, FALSE, Nil, <<Volume("a", ro)>>, FALSE) :
            ro \in BOOLEAN}
    \cup {Request(jobGVK, "job", 1, Update, FALSE, 2, <<Volume("a", FALSE)>>, TRUE)}
    \cup {Request(replicaSetGVK, "web-1", 1, Create, TRUE, 1, <<Volume("a", FALSE)>>, FALSE)}
    \cup {Request(<<"batch", "v1beta1", "CronJob">>, "cron", 1, Create, FALSE, Nil,
                  <<Volume("a", FALSE)>>, FALSE)}
    \cup {[Request(podGVK, "pod", 1, Create, FALSE, Nil, <<Volume("a", FALSE)>>, FALSE)
             EXCEPT !.decodable = FALSE]}

\* Admission requests submitted while the controllers run.
Requests ==
    {Request(deploymentGVK, "web", 1, Update, FALSE, n, <<Volume("a", FALSE)>>, FALSE) : n \in {1, 2}}
    \cup {Request(daemonSetGVK, "ds", 1, Create, FALSE, Nil, <<Volume("a", ro)>>, FALSE) :
            ro \in BOOLEAN}

\* Workloads the environment creates and deletes.
WorkloadKeys == {<<"Deployment", "web">>}

NoLast == [kind |-> "none"]

PVC(phase, deleting, conditions, pv) ==
    [kind |-> "pvc", uid |-> 1, phase |-> phase, deleting |-> deleting,
     conditions |-> conditions, pv |-> pv]

SortedNodeLists == {<<>>, <<"n1">>}

\* Readings of the volume probe's Usage, bytes.
UsageReadings == {0, 1}

----------------------------------------------------------------------------
(* Initial state: Pending claims without PVCR; nothing else exists *)

InitWith(claims) ==
    /\ now = 0
    /\ pvc = [c \in Claims |-> IF c \in claims THEN PVC(ClaimPending, FALSE, {}, NoPV) ELSE NoObj]
    /\ api = [c \in Claims |-> NoObj]
    /\ lister = [c \in Claims |-> NoObj]
    /\ cluster = {}
    /\ probeNodes = [c \in Claims |-> <<>>]
    /\ probeUsage = [c \in Claims |-> 0]
    /\ last = NoLast
    /\ input = NoObj
    /\ output = NoObj

----------------------------------------------------------------------------
(* Environment *)

\* Time passes by one recycler period.
Tick ==
    /\ now + workloadCheckInterval <= MaxTicks * workloadCheckInterval
    /\ now' = now + workloadCheckInterval
    /\ UNCHANGED <<pvc, api, lister, cluster, probeNodes, probeUsage, last, input, output>>

\* The PVCR informer delivers the pending events of a claim to the lister.
InformerSync(c) ==
    /\ lister[c] # api[c]
    /\ lister' = [lister EXCEPT ![c] = api[c]]
    /\ UNCHANGED <<now, pvc, api, cluster, probeNodes, probeUsage, last, input, output>>

\* The PV controller sets the claim's volumeName (the PV exists), then
\* marks the claim Bound.
PVCSetVolume(c, k) ==
    /\ pvc[c] # NoObj /\ pvc[c].phase = ClaimPending /\ pvc[c].pv = NoPV
    /\ k # NoPV
    /\ pvc' = [pvc EXCEPT ![c].pv = k]
    /\ UNCHANGED <<now, api, lister, cluster, probeNodes, probeUsage, last, input, output>>

PVCBind(c) ==
    /\ pvc[c] # NoObj /\ pvc[c].phase = ClaimPending /\ pvc[c].pv # NoPV
    /\ pvc' = [pvc EXCEPT ![c].phase = ClaimBound]
    /\ UNCHANGED <<now, api, lister, cluster, probeNodes, probeUsage, last, input, output>>

PVCDelete(c) ==
    /\ pvc[c] # NoObj /\ ~pvc[c].deleting
    /\ pvc' = [pvc EXCEPT ![c].deleting = TRUE]
    /\ UNCHANGED <<now, api, lister, cluster, probeNodes, probeUsage, last, input, output>>

WorkloadCreate(k) ==
    /\ k \notin cluster
    /\ cluster' = cluster \cup {k}
    /\ UNCHANGED <<now, pvc, api, lister, probeNodes, probeUsage, last, input, output>>

WorkloadDelete(k) ==
    /\ k \in cluster
    /\ cluster' = cluster \ {k}
    /\ UNCHANGED <<now, pvc, api, lister, probeNodes, probeUsage, last, input, output>>

\* Nodes mount and write to a volume once its claim is Bound.
ProbeNodesChange(c, nodes) ==
    /\ pvc[c] # NoObj /\ pvc[c].phase = ClaimBound
    /\ probeNodes[c] # nodes
    /\ probeNodes' = [probeNodes EXCEPT ![c] = nodes]
    /\ UNCHANGED <<now, pvc, api, lister, cluster, probeUsage, last, input, output>>

ProbeUsageChange(c, u) ==
    /\ pvc[c] # NoObj /\ pvc[c].phase = ClaimBound
    /\ probeUsage[c] # u
    /\ probeUsage' = [probeUsage EXCEPT ![c] = u]
    /\ UNCHANGED <<now, pvc, api, lister, cluster, probeNodes, last, input, output>>

----------------------------------------------------------------------------
(* Admission gate: one request handled from decoding to the response *)

Admit(req, sync) ==
    LET out == handleWorkload(pvc, api, lister, req, sync, now)
    IN  /\ api' = out.api
        /\ lister' = out.lister
        /\ last' = [kind |-> "response", allowed |-> out.allowed, code |-> out.code,
                    handleErr |-> out.handleErr, attachErr |-> out.attachErr]
        /\ UNCHANGED <<now, pvc, cluster, probeNodes, probeUsage, input, output>>

Syncs(req) == [1..Len(Handle(req).used) -> BOOLEAN]

----------------------------------------------------------------------------
(* Status-mirror controller *)

OwnerReference(c) ==
    [apiVersion |-> "v1", kind |-> "PersistentVolumeClaim", name |-> c, uid |-> pvc[c].uid]

createPVCRNoOwner(c) ==
    LET st == Status(pvc, lister, c)
    IN  IF st.err # ErrNil \/ api[c] # NoObj THEN api
        ELSE [api EXCEPT ![c] = NewPVCR(NoObj, st.statuses)]

\* pvcrManager.createPVCR: the PVCR store after it.
createPVCR(c) ==
    LET st == Status(pvc, lister, c)
    IN  IF st.err # ErrNil \/ api[c] # NoObj THEN api
        ELSE [api EXCEPT ![c] = NewPVCR(OwnerReference(c), st.statuses)]

updatePVCRDeleteWithClaim(c) ==
    LET st == Status(pvc, lister, c)
        newPVCR == [lister[c] EXCEPT !.spec.statuses = st.statuses]
    IN  IF st.err # ErrNil \/ UpdateErr(api, c, lister[c]) # ErrNil THEN api
        ELSE IF pvc[c].deleting THEN [api EXCEPT ![c] = NoObj]
        ELSE [api EXCEPT ![c] = newPVCR]

\* pvcrManager.updatePVCR: the PVCR store after it.
updatePVCR(c) ==
    LET st == Status(pvc, lister, c)
        newPVCR == [lister[c] EXCEPT !.spec.statuses = st.statuses]
    IN  IF st.err # ErrNil \/ UpdateErr(api, c, lister[c]) # ErrNil THEN api
        ELSE [api EXCEPT ![c] = newPVCR]

\* pvcrManager.syncPVC(key)
pvcrManagerSyncPVC(c) ==
    /\ api' = IF pvc[c] = NoObj THEN api
              ELSE IF lister[c] = NoObj THEN createPVCR(c)
              ELSE updatePVCR(c)
    /\ UNCHANGED <<now, pvc, lister, cluster, probeNodes, probeUsage, last, input, output>>

----------------------------------------------------------------------------
(* Mounted-nodes, usage and recycler controllers *)

\* manager.MountedNodes / manager.Usage: the CBS probe is a placeholder.
MountedNodes(c) ==
    IF getVolume(pvc, c) # ErrNil THEN [err |-> getVolume(pvc, c), nodes |-> <<>>]
    ELSE [err |-> ErrNil, nodes |-> IF pvc[c].pv = TencentCBS THEN <<>> ELSE probeNodes[c]]

Usage(c) ==
    IF getVolume(pvc, c) # ErrNil THEN [err |-> getVolume(pvc, c), usage |-> 0]
    ELSE [err |-> ErrNil, usage |-> IF pvc[c].pv = TencentCBS THEN 0 ELSE probeUsage[c]]

\* nodeCollector.update(pvcr): the new PVCR, or NoObj for (nil, _).
nodeCollectorUpdate(c, pvcr) ==
    LET m == MountedNodes(c)
    IN  IF m.err # ErrNil THEN NoObj
        ELSE IF arrayEqual(m.nodes, pvcr.spec.mountedNodes) THEN NoObj
        ELSE updatePVCStatus([pvcr EXCEPT !.spec.mountedNodes = m.nodes])

usageCollectorUpdateWithStatus(c, pvcr) ==
    LET u == Usage(c)
    IN  IF u.err # ErrNil THEN NoObj
        ELSE IF u.usage = pvcr.spec.usageBytes THEN NoObj
        ELSE updatePVCStatus([pvcr EXCEPT !.spec.usageBytes = u.usage])

\* usageCollector.update(pvcr)
usageCollectorUpdate(c, pvcr) ==
    LET u == Usage(c)
    IN  IF u.err # ErrNil THEN NoObj
        ELSE IF u.usage = pvcr.spec.usageBytes THEN NoObj
        ELSE [pvcr EXCEPT !.spec.usageBytes = u.usage]

\* controller.syncPVC(key) with the updater's result.
controllerSyncPVC(c, newPVCR) ==
    /\ lister[c] # NoObj
    /\ newPVCR # NoObj
    /\ UpdateErr(api, c, lister[c]) = ErrNil
    /\ api' = [api EXCEPT ![c] = newPVCR]
    /\ UNCHANGED <<now, pvc, lister, cluster, probeNodes, probeUsage, last, input, output>>

nodeCollectorSyncPVC(c) ==
    /\ lister[c] # NoObj
    /\ controllerSyncPVC(c, nodeCollectorUpdate(c, lister[c]))

usageCollectorSyncPVC(c) ==
    /\ lister[c] # NoObj
    /\ controllerSyncPVC(c, usageCollectorUpdate(c, lister[c]))

\* workloadRecycler.syncPVCR(key)
workloadRecyclerSyncPVCR(c, apiErr) ==
    /\ lister[c] # NoObj
    /\ LET pvcr == lister[c]
           workloads == keptWorkloads(cluster, pvcr.spec.workloads, apiErr, now)
       IN  /\ Len(workloads) # Len(pvcr.spec.workloads)
           /\ UpdateErr(api, c, pvcr) = ErrNil
           /\ api' = [api EXCEPT ![c] = updatePVCStatus([pvcr EXCEPT !.spec.workloads = workloads])]
    /\ UNCHANGED <<now, pvc, lister, cluster, probeNodes, probeUsage, last, input, output>>

----------------------------------------------------------------------------
(* The system: one claim under the four controllers and the gate *)

\* Drivers of the PVs provisioned in this specification.
Drivers == {CephRBD}

Init == InitWith({"a"})

Environment ==
    \/ Tick
    \/ \E c \in Claims : InformerSync(c)
    \/ \E c \in Claims, k \in Drivers : PVCSetVolume(c, k)
    \/ \E c \in Claims : PVCBind(c)
    \/ \E c \in Claims : PVCDelete(c)
    \/ \E k \in WorkloadKeys : WorkloadCreate(k)
    \/ \E k \in WorkloadKeys : WorkloadDelete(k)
    \/ \E c \in Claims, nodes \in SortedNodeLists : ProbeNodesChange(c, nodes)
    \/ \E c \in Claims, u \in UsageReadings : ProbeUsageChange(c, u)

Next ==
    \/ Environment
    \/ \E req \in Requests : \E sync \in Syncs(req) : Admit(req, sync)
    \/ \E c \in Claims : pvcrManagerSyncPVC(c)
    \/ \E c \in Claims : nodeCollectorSyncPVC(c)
    \/ \E c \in Claims : usageCollectorSyncPVC(c)
    \/ \E c \in Claims, apiErr \in BOOLEAN : workloadRecyclerSyncPVCR(c, apiErr)

Spec == Init /\ [][Next]_vars

----------------------------------------------------------------------------
(* The admission gate over two claims and every kind of PV *)

\* Claim "a" goes through provisioning; claim "b" is Bound to a CephFS PV.
InitGate ==
    /\ now = 0
    /\ pvc = [c \in Claims |-> IF c = "a" THEN PVC(ClaimPending, FALSE, {}, NoPV)
                                ELSE PVC(ClaimBound, FALSE, {}, CephFS)]
    /\ api = [c \in Claims |-> NoObj]
    /\ lister = [c \in Claims |-> NoObj]
    /\ cluster = {}
    /\ probeNodes = [c \in Claims |-> <<>>]
    /\ probeUsage = [c \in Claims |-> 0]
    /\ last = NoLast
    /\ input = NoObj
    /\ output = NoObj

\* PVs provisioned for claim "a" in this specification.
GateKinds == {NotCSI, CephRBD, CephFS, "otherdriver"}

NextGate ==
    \/ \E c \in Claims : InformerSync(c)
    \/ \E c \in Claims, k \in GateKinds : PVCSetVolume(c, k)
    \/ \E c \in Claims : PVCBind(c)
    \/ \E req \in GateRequests : \E sync \in Syncs(req) : Admit(req, sync)
    \/ \E c \in Claims : pvcrManagerSyncPVC(c)

SpecGate == InitGate /\ [][NextGate]_vars

----------------------------------------------------------------------------
(* Available as a function of its arguments *)

Ref(kind, name) == [apiVersion |-> <<"apps", "v1">>, kind |-> kind, name |-> name, uid |-> 1]

Entry(ref, ro, n, t) == [ref |-> ref, readOnly |-> ro, replicas |-> n, timestamp |-> t]

\* PVCRs whose workloads list holds up to MaxEntries entries.
EntryLists(n) ==
    UNION {[1..k -> {Entry(Ref("DaemonSet", "ds"), ro, r, 0) : ro \in BOOLEAN, r \in {Nil, 1}}] :
            k \in 0..n}

AvailableInputs ==
    {[kind |-> "Available", driver |-> d,
      w |-> Entry(Ref("Deployment", "web"), ro, n, 0),
      pvcr |-> [NewPVCR(NoObj, <<>>) EXCEPT !.spec.workloads = l]] :
        d \in volumes, ro \in BOOLEAN, n \in {Nil} \cup 0..MaxReplicas, l \in EntryLists(MaxEntries)}

InitAvailableInputs ==
    /\ now = 0
    /\ pvc = [c \in Claims |-> NoObj]
    /\ api = [c \in Claims |-> NoObj]
    /\ lister = [c \in Claims |-> NoObj]
    /\ cluster = {}
    /\ probeNodes = [c \in Claims |-> <<>>]
    /\ probeUsage = [c \in Claims |-> 0]
    /\ last = NoLast
    /\ input \in AvailableInputs
    /\ output = NoObj

CallAvailable ==
    /\ input # NoObj /\ input.kind = "Available" /\ output = NoObj
    /\ output' = [kind |-> "result", err |-> Available(input.driver, input.w, input.pvcr)]
    /\ UNCHANGED <<now, pvc, api, lister, cluster, probeNodes, probeUsage, last, input>>

SpecAvailable == InitAvailableInputs /\ [][CallAvailable]_vars

----------------------------------------------------------------------------
(* Status as a function of the PVC, its PV and its PVCR *)

ConditionTypes == resizeConditions \cup {"ModifyVolumeError"}

StatusInputs ==
    {[kind |-> "Status",
      pvc |-> PVC(ph, del, conds, pv),
      pvcr |-> r] :
        ph \in {ClaimPending, ClaimBound, ClaimLost}, del \in BOOLEAN,
        conds \in SUBSET ConditionTypes, pv \in {NoPV, NotCSI, CephRBD, CephFS},
        r \in {NoObj}
              \cup {[NewPVCR(NoObj, <<>>) EXCEPT !.spec.workloads = l, !.spec.mountedNodes = m] :
                      l \in EntryLists(1), m \in SortedNodeLists}}

InitStatusInputs ==
    /\ now = 0
    /\ pvc = [c \in Claims |-> NoObj]
    /\ api = [c \in Claims |-> NoObj]
    /\ lister = [c \in Claims |-> NoObj]
    /\ cluster = {}
    /\ probeNodes = [c \in Claims |-> <<>>]
    /\ probeUsage = [c \in Claims |-> 0]
    /\ last = NoLast
    /\ input \in StatusInputs
    /\ output = NoObj

CallStatus ==
    /\ input # NoObj /\ input.kind = "Status" /\ output = NoObj
    /\ output' = [kind |-> "result"] @@
                 Status([c \in Claims |-> input.pvc], [c \in Claims |-> input.pvcr], "a")
    /\ UNCHANGED <<now, pvc, api, lister, cluster, probeNodes, probeUsage, last, input>>

SpecStatus == InitStatusInputs /\ [][CallStatus]_vars

----------------------------------------------------------------------------
(* Claims *)

Called == output # NoObj

\* C1: for the block probes (CephRBD, CBS) Available returns ok exactly when
\* the workload is read-only, or its replicas is nil or <= 1 and no entry of
\* pvcr.workloads is read-write, and a 400 rejection otherwise; the CephFS
\* probe returns ok for every input.
C1_Available ==
    (Called /\ input.kind = "Available") =>
        LET w == input.w
            ok == \/ w.readOnly
                  \/ /\ (w.replicas = Nil \/ w.replicas <= 1)
                     /\ \A e \in Range(input.pvcr.spec.workloads) : e.readOnly
        IN  IF input.driver = CephFS THEN output.err = ErrNil
            ELSE /\ (output.err = ErrNil) <=> ok
                 /\ ~ok => (output.err \in StatusErrors /\ ErrorCode(output.err) = StatusBadRequest)

C1_Witness ==
    /\ Called /\ input.kind = "Available"
    /\ input.driver = TencentCBS
    /\ ~input.w.readOnly /\ input.w.replicas = 1
    /\ \E e \in Range(input.pvcr.spec.workloads) : ~e.readOnly
    /\ output.err = "MoreThanOneReadWrite"

\* C9: Status applies the overrides in order: a deletion timestamp gives
\* exactly {Deleting}; else Pending gives exactly {Creating}; else Lost, or
\* Bound without PV, gives exactly {Lost}; only a Bound claim with a PV gets
\* InUse or Available, with Expanding added when a resize condition is true.
C9_StatusPrecedence ==
    (Called /\ input.kind = "Status") =>
        LET p  == input.pvc
            st == output.statuses
            resizing == p.conditions \cap {"Resizing", "FileSystemResizePending"} # {}
        IN  /\ output.err = ErrNil
            /\ IF p.deleting THEN st = <<"Deleting">>
               ELSE IF p.phase = "Pending" THEN st = <<"Creating">>
               ELSE IF p.phase = "Lost" \/ (p.phase = "Bound" /\ p.pv = NoPV) THEN st = <<"Lost">>
               ELSE /\ Len(st) >= 1
                    /\ st[1] \in {"InUse", "Available"}
                    /\ \A i \in 2..Len(st) : st[i] = "Expanding"
                    /\ ("Expanding" \in Range(st)) <=> resizing

C9_Witness ==
    /\ Called /\ input.kind = "Status"
    /\ input.pvc.deleting /\ input.pvc.phase = "Pending"
    /\ "Resizing" \in input.pvc.conditions
    /\ output.statuses = <<"Deleting">>

----------------------------------------------------------------------------
(* Claims about the admission gate *)

\* The entry handleWorkload passes to Attach for the i-th used volume.
EntryOf(h, i, t) ==
    [ref |-> h.w.ref, readOnly |-> h.used[i].readOnly, replicas |-> h.w.replicas,
     timestamp |-> t]

Lists(pvcr, ref) ==
    /\ pvcr # NoObj
    /\ \E i \in 1..Len(pvcr.spec.workloads) :
          ObjectReferenceString(pvcr.spec.workloads[i].ref) = ObjectReferenceString(ref)

Responded == last.kind = "response"

\* C2: every admission request for a top-level workload with replicas > 1
\* that mounts read-write a claim whose PV is CephRBD is denied, whatever the
\* claim's PVCR workloads list holds.
C2_ReplicatedReadWriteDenied ==
    \A req \in GateRequests : \A sync \in Syncs(req) :
        LET h == Handle(req)
        IN  (/\ h.err = ErrNil
             /\ h.w.replicas # Nil /\ h.w.replicas > 1
             /\ \E i \in 1..Len(h.used) :
                   /\ ~h.used[i].readOnly
                   /\ pvc[h.used[i].claimName] # NoObj
                   /\ pvc[h.used[i].claimName].pv = CephRBD)
            => ~handleWorkload(pvc, api, lister, req, sync, now).allowed

\* The state the C2 violation starts from: the PVCR of a CephRBD claim
\* already lists the Deployment, admitted with one replica.
C2_Witness ==
    /\ pvc["a"].pv = CephRBD
    /\ lister["a"] # NoObj
    /\ \E i \in 1..Len(lister["a"].spec.workloads) :
          LET e == lister["a"].spec.workloads[i]
          IN  e.ref.kind = "Deployment" /\ ~e.readOnly /\ e.replicas = 1
    /\ Responded /\ last.allowed

\* C4: the response is allowed exactly when Handle returned the
\* IrrelevantWorkload sentinel, or Handle succeeded and every used claim was
\* attached; otherwise it is denied with a failure status, and the claims
\* after the failing one are not attached.
C4_Decision ==
    \A req \in GateRequests : \A sync \in Syncs(req) :
        LET h == Handle(req)
            out == handleWorkload(pvc, api, lister, req, sync, now)
            tried == {h.used[i].claimName : i \in 1..out.attempted}
        IN  /\ out.allowed <=>
                \/ h.err = IrrelevantWorkload
                \/ h.err = ErrNil /\ out.attachErr = ErrNil
            /\ (out.allowed /\ h.err = ErrNil) =>
                \A i \in 1..Len(h.used) : Lists(out.api[h.used[i].claimName], h.w.ref)
            /\ ~out.allowed =>
                /\ out.code >= StatusBadRequest
                /\ h.err = ErrNil => out.attempted >= 1 /\ out.attempted <= Len(h.used)
                /\ \A c \in Claims \ tried : out.api[c] = api[c]

\* A denied response whose first Attach failed while the second used claim
\* could have been attached.
C4_Witness ==
    /\ Responded /\ ~last.allowed /\ last.attachErr = "VolumeStillCreating"
    /\ lister["b"] # NoObj /\ lister["b"].spec.workloads = <<>>
    /\ \E req \in GateRequests : \E sync \in Syncs(req) :
          LET out == handleWorkload(pvc, api, lister, req, sync, now)
          IN  /\ Len(Handle(req).used) = 2 /\ out.attempted = 1
              /\ out.attachErr = last.attachErr /\ out.code = last.code

\* C5: when Handle returns the IrrelevantWorkload sentinel the request is
\* allowed and no PVCR is created or modified.
C5_IrrelevantAllowed ==
    \A req \in GateRequests : \A sync \in Syncs(req) :
        LET out == handleWorkload(pvc, api, lister, req, sync, now)
        IN  Handle(req).err = IrrelevantWorkload =>
                /\ out.allowed /\ out.code = CodeUnset
                /\ out.api = api
                /\ out.attempted = 0

C5_Witness ==
    /\ Responded /\ last.handleErr = IrrelevantWorkload /\ last.allowed
    /\ api["a"] # NoObj /\ api["b"] # NoObj
    /\ pvc["a"].phase = ClaimBound

NoDuplicates(pvcr) ==
    pvcr # NoObj =>
        \A i, j \in 1..Len(pvcr.spec.workloads) :
            sameWorkload(pvcr.spec.workloads[i], pvcr.spec.workloads[j]) => i = j

EntriesOf(pvcr, ref) ==
    IF pvcr = NoObj THEN 0
    ELSE Cardinality({i \in 1..Len(pvcr.spec.workloads) :
                        ObjectReferenceString(pvcr.spec.workloads[i].ref)
                            = ObjectReferenceString(ref)})

\* C7: the same admission request submitted twice gets the same decision
\* both times and adds at most one entry for the workload to each used
\* claim's PVCR; no PVCR lists the same workload twice.
C7_SameRequestTwice ==
    \A req \in GateRequests : \A sync1 \in Syncs(req) : \A sync2 \in Syncs(req) :
        LET h == Handle(req)
            out1 == handleWorkload(pvc, api, lister, req, sync1, now)
            out2 == handleWorkload(pvc, out1.api, out1.lister, req, sync2, now)
        IN  /\ out1.allowed = out2.allowed
            /\ \A c \in Claims :
                  /\ NoDuplicates(out2.api[c])
                  /\ h.err = ErrNil => EntriesOf(out2.api[c], h.w.ref) <= 1

\* A PVCR that lists the workload after a denied admission.
C7_Witness ==
    /\ Responded /\ ~last.allowed /\ last.code = StatusBadRequest
    /\ pvc["a"].pv = CephRBD
    /\ api["a"] # NoObj /\ Len(api["a"].spec.workloads) = 1
    /\ api["a"].spec.workloads[1].readOnly
    /\ api["a"].spec.workloads[1].replicas = 2

\* C8: when Attach fails because the volume is still creating, the PV has
\* no CSI section or the PV's driver is not registered, the response is
\* denied with a 400-class status and the PVCR is unchanged.
C8_InputErrors400 ==
    \A req \in GateRequests : \A sync \in Syncs(req) :
        LET h == Handle(req)
            out == handleWorkload(pvc, api, lister, req, sync, now)
        IN  out.attachErr \in {"VolumeStillCreating", "NotCSIVolume", "UnsupportedVolumeType"} =>
                /\ ~out.allowed
                /\ out.code >= StatusBadRequest /\ out.code < StatusInternalServerError
                /\ out.api[h.used[out.attempted].claimName]
                     = api[h.used[out.attempted].claimName]

C8_Witness ==
    /\ Responded /\ ~last.allowed
    /\ last.attachErr = "VolumeStillCreating"
    /\ last.code = StatusInternalServerError
    /\ pvc["a"].phase = ClaimPending /\ pvc["a"].pv = NoPV

----------------------------------------------------------------------------
(* Claims about the PVCR under the gate and the controllers *)

ReadWriteEntries(pvcr) == {i \in 1..Len(pvcr.spec.workloads) : ~pvcr.spec.workloads[i].readOnly}

\* C3: in every reachable state the PVCR of a claim whose PV uses a block
\* driver lists at most one read-write entry, and every read-write entry has
\* replicas nil or <= 1.
C3_BlockDiscipline ==
    \A c \in Claims :
        (pvc[c] # NoObj /\ pvc[c].pv \in {CephRBD, TencentCBS} /\ api[c] # NoObj) =>
            /\ Cardinality(ReadWriteEntries(api[c])) <= 1
            /\ \A i \in ReadWriteEntries(api[c]) :
                  \/ api[c].spec.workloads[i].replicas = Nil
                  \/ api[c].spec.workloads[i].replicas <= 1

\* A racing admission was refused by the store while the PVCR of the
\* CephRBD claim lists a read-write and a read-only workload.
C3_Witness ==
    /\ pvc["a"].pv = CephRBD /\ api["a"] # NoObj
    /\ Len(api["a"].spec.workloads) = 2
    /\ Cardinality(ReadWriteEntries(api["a"])) = 1
    /\ Responded /\ last.attachErr = "Conflict"

\* The effect of an allowed single-volume admission whose workload the PVCR
\* read by Attach does not list, on a Bound claim whose PV exists.
C6_AttachEffect(live) ==
    \A req \in Requests : \A sync \in Syncs(req) :
        LET h == Handle(req)
            out == handleWorkload(pvc, api, lister, req, sync, now)
            c == h.used[1].claimName
            view == IF sync[1] THEN api[c] ELSE lister[c]
        IN  (/\ h.err = ErrNil /\ Len(h.used) = 1 /\ out.allowed
             /\ pvc[c] # NoObj /\ pvc[c].phase = ClaimBound /\ pvc[c].pv # NoPV
             /\ (live => ~pvc[c].deleting)
             /\ ~Lists(view, h.w.ref))
            => /\ out.api[c].spec.workloads = Append(api[c].spec.workloads, EntryOf(h, 1, now))
               /\ ClaimStatusInUse \in Range(out.api[c].spec.statuses)
               /\ ClaimStatusAvailable \notin Range(out.api[c].spec.statuses)
               /\ out.api[c].spec.mountedNodes = api[c].spec.mountedNodes
               /\ out.api[c].spec.usageBytes = api[c].spec.usageBytes

\* C6 (as stated): after a successful Attach of a workload not yet listed in
\* the PVCR of a Bound claim whose PV exists, workloads is the previous list
\* with the workload appended last, statuses contains InUse and not
\* Available, and mountedNodes and usageBytes are unchanged.
C6_AttachAppends == C6_AttachEffect(FALSE)

\* C6 (amended): the same, for a Bound claim without deletion timestamp.
C6_AttachAppendsLive == C6_AttachEffect(TRUE)

\* An Attach has appended to a PVCR that carries mounted nodes and usage.
C6_Witness ==
    /\ Responded /\ last.allowed /\ last.handleErr = ErrNil
    /\ pvc["a"].phase = ClaimBound /\ ~pvc["a"].deleting
    /\ api["a"] # NoObj /\ Len(api["a"].spec.workloads) = 2
    /\ api["a"].spec.workloads[2].timestamp = now /\ now > 0
    /\ ClaimStatusInUse \in Range(api["a"].spec.statuses)
    /\ api["a"].spec.mountedNodes # <<>> /\ api["a"].spec.usageBytes > 0

\* C10: every status computation for a Bound, non-deleting claim with an
\* existing PV puts InUse in statuses exactly when the PVCR's workloads or
\* mountedNodes is non-empty, and Available otherwise.
C10_InUseIffAttachedOrMounted ==
    \A c \in Claims :
        (/\ pvc[c] # NoObj /\ pvc[c].phase = ClaimBound /\ ~pvc[c].deleting
         /\ pvc[c].pv # NoPV /\ lister[c] # NoObj) =>
            LET st == Range(Status(pvc, lister, c).statuses)
                used == \/ Len(lister[c].spec.workloads) > 0
                        \/ Len(lister[c].spec.mountedNodes) > 0
            IN  /\ ClaimStatusInUse \in st <=> used
                /\ ClaimStatusAvailable \in st <=> ~used

\* The status mirror wrote Available into a PVCR that has mounted nodes.
C10_Witness ==
    /\ pvc["a"].phase = ClaimBound /\ ~pvc["a"].deleting
    /\ api["a"] # NoObj
    /\ api["a"].spec.workloads = <<>> /\ api["a"].spec.mountedNodes # <<>>
    /\ api["a"].spec.statuses = <<ClaimStatusAvailable>>

----------------------------------------------------------------------------
(* Claims about the PVCR after quiescence *)

\* The controllers have quiesced on claim c: the lister has caught up with
\* the store and a pass of each of the four controllers over c would leave
\* the stored PVCR as it is.
Quiescent(c) ==
    /\ pvc[c] # NoObj /\ api[c] # NoObj
    /\ lister[c] = api[c]
    /\ updatePVCR(c) = api
    /\ nodeCollectorUpdate(c, lister[c]) = NoObj
    /\ usageCollectorUpdate(c, lister[c]) = NoObj
    /\ Len(keptWorkloads(cluster, lister[c].spec.workloads, FALSE, now))
         = Len(lister[c].spec.workloads)

Unused(pvcr) == pvcr.spec.workloads = <<>> /\ pvcr.spec.mountedNodes = <<>>

\* C11 (as stated): after quiescence, a PVCR with empty workloads and empty
\* mountedNodes has Available in statuses and not InUse.
C11_UnusedIsAvailable ==
    \A c \in Claims :
        (Quiescent(c) /\ Unused(api[c])) =>
            /\ ClaimStatusAvailable \in Range(api[c].spec.statuses)
            /\ ClaimStatusInUse \notin Range(api[c].spec.statuses)

\* C11 (amended): the same for a Bound claim without deletion timestamp whose
\* PV exists; the Deleting, Creating and Lost overrides come first.
C11_UnusedBoundIsAvailable ==
    \A c \in Claims :
        (/\ Quiescent(c) /\ Unused(api[c])
         /\ pvc[c].phase = ClaimBound /\ ~pvc[c].deleting /\ pvc[c].pv # NoPV) =>
            /\ ClaimStatusAvailable \in Range(api[c].spec.statuses)
            /\ ClaimStatusInUse \notin Range(api[c].spec.statuses)

\* Quiescence after a workload was attached and recycled again.
C11_Witness ==
    /\ Quiescent("a") /\ Unused(api["a"])
    /\ pvc["a"].phase = ClaimBound /\ ~pvc["a"].deleting
    /\ api["a"].spec.statuses = <<ClaimStatusAvailable>>
    /\ Responded /\ last.allowed /\ last.handleErr = ErrNil /\ now > 0

\* C12: after quiescence the PVCR of a PVC with a deletion timestamp has
\* statuses exactly {Deleting}, whichever controllers wrote it since.
C12_DeletingOnly ==
    \A c \in Claims :
        (Quiescent(c) /\ pvc[c].deleting) => api[c].spec.statuses = <<ClaimStatusDeleting>>

C12_Witness ==
    /\ Quiescent("a") /\ pvc["a"].deleting /\ pvc["a"].phase = ClaimBound
    /\ api["a"].spec.statuses = <<ClaimStatusDeleting>>
    /\ api["a"].spec.workloads # <<>> /\ api["a"].spec.mountedNodes # <<>>

\* C13 (as stated): after quiescence the PVCR of a Pending PVC has statuses
\* exactly {Creating}.
C13_PendingIsCreating ==
    \A c \in Claims :
        (Quiescent(c) /\ pvc[c].phase = ClaimPending) =>
            api[c].spec.statuses = <<ClaimStatusCreating>>

\* C13 (amended): the same for a Pending PVC without deletion timestamp.
C13_PendingLiveIsCreating ==
    \A c \in Claims :
        (Quiescent(c) /\ pvc[c].phase = ClaimPending /\ ~pvc[c].deleting) =>
            api[c].spec.statuses = <<ClaimStatusCreating>>

\* A Pending claim whose PV is already set, with a workload attached.
C13_Witness ==
    /\ Quiescent("a") /\ pvc["a"].phase = ClaimPending /\ ~pvc["a"].deleting
    /\ pvc["a"].pv = CephRBD
    /\ api["a"].spec.workloads # <<>>
    /\ api["a"].spec.statuses = <<ClaimStatusCreating>>

----------------------------------------------------------------------------
(* A Bound claim whose conditions change under the controllers and the gate *)

\* The resize controller and the kubelet set and clear the conditions of a
\* Bound claim.
PVCSetConditions(c, conds) ==
    /\ pvc[c] # NoObj /\ pvc[c].phase = ClaimBound /\ pvc[c].conditions # conds
    /\ pvc' = [pvc EXCEPT ![c].conditions = conds]
    /\ UNCHANGED <<now, api, lister, cluster, probeNodes, probeUsage, last, input, output>>

InitResize ==
    /\ now = 0
    /\ pvc = [c \in Claims |-> IF c = "a" THEN PVC(ClaimBound, FALSE, {}, CephRBD) ELSE NoObj]
    /\ api = [c \in Claims |-> NoObj]
    /\ lister = [c \in Claims |-> NoObj]
    /\ cluster = {}
    /\ probeNodes = [c \in Claims |-> <<>>]
    /\ probeUsage = [c \in Claims |-> 0]
    /\ last = NoLast
    /\ input = NoObj
    /\ output = NoObj

NextResize ==
    \/ Tick
    \/ \E c \in Claims : InformerSync(c)
    \/ \E c \in Claims, conds \in SUBSET ConditionTypes : PVCSetConditions(c, conds)
    \/ \E c \in Claims, nodes \in SortedNodeLists : ProbeNodesChange(c, nodes)
    \/ \E req \in Requests : \E sync \in Syncs(req) : Admit(req, sync)
    \/ \E c \in Claims : pvcrManagerSyncPVC(c)
    \/ \E c \in Claims : nodeCollectorSyncPVC(c)
    \/ \E c \in Claims, apiErr \in BOOLEAN : workloadRecyclerSyncPVCR(c, apiErr)

SpecResize == InitResize /\ [][NextResize]_vars

\* C14: in every reachable state pvcr.statuses holds no duplicate entry,
\* for every combination of PVC conditions and after any sequence of
\* status-mirror, Attach, mounted-nodes and recycler writes.
C14_StatusesNoDuplicates ==
    \A c \in Claims :
        api[c] # NoObj =>
            \A i, j \in 1..Len(api[c].spec.statuses) :
                api[c].spec.statuses[i] = api[c].spec.statuses[j] => i = j

\* Both resize conditions are true and the PVCR lists Expanding twice.
C14_Witness ==
    /\ resizeConditions \subseteq pvc["a"].conditions
    /\ api["a"] # NoObj
    /\ Cardinality({i \in 1..Len(api["a"].spec.statuses) :
                      api["a"].spec.statuses[i] = ClaimStatusExpanding}) = 2

----------------------------------------------------------------------------
(* The recycler under fair scheduling: one CephFS claim, workloads of three
   kinds that are admitted, finish and are deleted, never re-created *)

RecycleKeys == {<<"Deployment", "web">>, <<"Job", "job">>, <<"TApp", "tapp">>}

\* A Job whose Complete or Failed condition is true stays in the cluster.
Finished(C, k) == k \in C /\ <<k[1], k[2], "finished">> \in C

RecycleRequests ==
    {Request(deploymentGVK, "web", 1, Create, FALSE, 1, <<Volume("a", FALSE)>>, FALSE),
     [Request(deploymentGVK, "web", 1, Update, FALSE, 1, <<Volume("a", FALSE)>>, FALSE)
        EXCEPT !.volumes = <<>>],
     Request(jobGVK, "job", 1, Create, FALSE, 1, <<Volume("a", FALSE)>>, FALSE),
     Request(tappGVK, "tapp", 1, Create, FALSE, 1, <<Volume("a", FALSE)>>, FALSE)}

InitRecycle ==
    /\ now = 0
    /\ pvc = [c \in Claims |-> IF c = "a" THEN PVC(ClaimPending, FALSE, {}, NoPV) ELSE NoObj]
    /\ api = [c \in Claims |-> NoObj]
    /\ lister = [c \in Claims |-> NoObj]
    /\ cluster = RecycleKeys
    /\ probeNodes = [c \in Claims |-> <<>>]
    /\ probeUsage = [c \in Claims |-> 0]
    /\ last = NoLast
    /\ input = NoObj
    /\ output = NoObj

\* Time passes by one recycler period, for MaxRecycleTicks periods.
TickRecycle ==
    /\ now + workloadCheckInterval <= MaxRecycleTicks * workloadCheckInterval
    /\ now' = now + workloadCheckInterval
    /\ UNCHANGED <<pvc, api, lister, cluster, probeNodes, probeUsage, last, input, output>>

\* The Job controller sets the Complete condition of a Job.
WorkloadFinish(k) ==
    /\ k \in cluster /\ k[1] = "Job" /\ ~Finished(cluster, k)
    /\ cluster' = cluster \cup {<<k[1], k[2], "finished">>}
    /\ UNCHANGED <<now, pvc, api, lister, probeNodes, probeUsage, last, input, output>>

\* An admission whose released set (computed by Handle, not used by the
\* gate) is kept for observation.  Admissions stop one recycler period
\* before the clock's cap, so that every entry can outlive its grace delay,
\* and no request arrives for a workload that has been deleted or has
\* completed.
AdmitObserved(req, sync) ==
    LET out == handleWorkload(pvc, api, lister, req, sync, now)
        h == Handle(req)
    IN  /\ now + workloadCheckInterval <= MaxRecycleTicks * workloadCheckInterval
        /\ <<h.w.ref.kind, h.w.ref.name>> \in cluster
        /\ ~Finished(cluster, <<h.w.ref.kind, h.w.ref.name>>)
        /\ api' = out.api
        /\ lister' = out.lister
        /\ last' = [kind |-> "response", allowed |-> out.allowed, code |-> out.code,
                    handleErr |-> out.handleErr, attachErr |-> out.attachErr]
        /\ output' = [kind |-> "released", key |-> <<h.w.ref.kind, h.w.ref.name>>,
                      claims |-> ClaimNames(h.released)]
        /\ UNCHANGED <<now, pvc, cluster, probeNodes, probeUsage, input>>

NextRecycle ==
    \/ TickRecycle
    \/ \E c \in Claims : InformerSync(c)
    \/ \E c \in Claims : PVCSetVolume(c, CephFS)
    \/ \E c \in Claims : PVCBind(c)
    \/ \E k \in RecycleKeys : WorkloadDelete(k)
    \/ \E k \in RecycleKeys : WorkloadFinish(k)
    \/ \E req \in RecycleRequests : \E sync \in Syncs(req) : AdmitObserved(req, sync)
    \/ \E c \in Claims : pvcrManagerSyncPVC(c)
    \/ \E c \in Claims : workloadRecyclerSyncPVCR(c, FALSE)

\* The informer delivers events, the clock advances, and the status mirror
\* and the recycler run their periodic passes.
FairRecycle ==
    /\ WF_vars(TickRecycle)
    /\ \A c \in Claims : WF_vars(InformerSync(c))
    /\ \A c \in Claims : WF_vars(pvcrManagerSyncPVC(c))
    /\ \A c \in Claims : WF_vars(workloadRecyclerSyncPVCR(c, FALSE))

SpecRecycle == InitRecycle /\ [][NextRecycle]_vars /\ FairRecycle

ListsKey(pvcr, k) ==
    /\ pvcr # NoObj
    /\ \E i \in 1..Len(pvcr.spec.workloads) :
          <<pvcr.spec.workloads[i].ref.kind, pvcr.spec.workloads[i].ref.name>> = k

\* C15: once the controllers have nothing left to do for a claim, every
\* workload listed on its PVCR either still exists in the cluster or was
\* stamped no more than workloadCheckDelay seconds ago.
C15_EntriesExistOrRecent ==
    \A c \in Claims :
        Quiescent(c) =>
            \A i \in 1..Len(api[c].spec.workloads) :
                LET e == api[c].spec.workloads[i]
                IN  \/ <<e.ref.kind, e.ref.name>> \in cluster
                    \/ e.timestamp + workloadCheckDelay >= now

C15_Witness ==
    /\ Quiescent("a")
    /\ now > workloadCheckDelay
    /\ <<"Deployment", "web">> \notin cluster
    /\ last # NoLast
    /\ api["a"].spec.workloads # <<>>
    /\ ~ListsKey(api["a"], <<"Deployment", "web">>)

\* C16: a PVCR appears only for an existing PVC, and what the status mirror
\* creates has statuses = Status(PVC), no workloads, no mounted nodes, usage
\* 0 and the owner reference {v1, PersistentVolumeClaim, name, UID}; an
\* existing PVCR is never deleted or replaced by a second create; for a name
\* with no PVC nothing is created; and under fair scheduling every existing
\* PVC eventually has its PVCR.
C16_OnePVCRPerPVC ==
    /\ [][\A c \in Claims :
            /\ (api[c] = NoObj /\ api'[c] # NoObj) =>
                  /\ pvc[c] # NoObj
                  /\ api'[c].owner = [apiVersion |-> "v1",
                                      kind |-> "PersistentVolumeClaim",
                                      name |-> c, uid |-> pvc[c].uid]
                  /\ api'[c].spec.statuses = Status(pvc, lister, c).statuses
                  /\ api'[c].spec.workloads = <<>>
                  /\ api'[c].spec.mountedNodes = <<>>
                  /\ api'[c].spec.usageBytes = 0
            /\ api[c] # NoObj => (api'[c] # NoObj /\ api'[c].owner = api[c].owner)
            /\ pvc[c] = NoObj => api'[c] = NoObj]_vars
    /\ \A c \in Claims : (pvc[c] # NoObj) ~> (api[c] # NoObj)

C16_Witness ==
    /\ pvc["a"] # NoObj /\ api["a"] # NoObj /\ lister["a"] = NoObj
    /\ api["a"].spec.workloads = <<>>
    /\ pvc["b"] = NoObj /\ api["b"] = NoObj

\* C17: an entry whose workload has been deleted, and stays deleted, is
\* eventually removed from the PVCR; when that leaves a Bound claim with no
\* workloads and no mounted nodes, its statuses become [Available].
C17_DeletedWorkloadRemoved ==
    \A k \in RecycleKeys :
        (ListsKey(api["a"], k) /\ k \notin cluster)
            ~> (/\ ~ListsKey(api["a"], k)
                /\ (api["a"] # NoObj /\ Unused(api["a"]) /\ pvc["a"].phase = ClaimBound)
                      => api["a"].spec.statuses = <<ClaimStatusAvailable>>)

C17_Witness ==
    /\ ListsKey(api["a"], <<"TApp", "tapp">>)
    /\ <<"TApp", "tapp">> \notin cluster
    /\ now > workloadCheckDelay

\* The last admitted request was for workload k, which still exists, and
\* released claim c, whose PVCR still lists k.
ReleasedAndListed(k, c) ==
    /\ last # NoLast /\ last.allowed
    /\ output # NoObj /\ output.key = k /\ c \in output.claims
    /\ k \in cluster
    /\ ListsKey(api[c], k)

\* C18: after an admitted UPDATE of a still-existing workload released a
\* claim, the workload's entry is eventually removed from the claim's PVCR
\* (unless the workload is deleted or another request arrives first).
C18_ReleasedEntryRemoved ==
    \A k \in RecycleKeys :
        ReleasedAndListed(k, "a") ~> ~ReleasedAndListed(k, "a")

C18_Witness ==
    /\ ReleasedAndListed(<<"Deployment", "web">>, "a")
    /\ Quiescent("a")
    /\ now = MaxRecycleTicks * workloadCheckInterval

\* C19: the entry of a Job that has completed and is still in the cluster is
\* eventually removed from the PVCR of the claim it was attached to.
C19_CompletedEntryRemoved ==
    \A k \in RecycleKeys :
        (Finished(cluster, k) /\ ListsKey(api["a"], k)) ~> ~ListsKey(api["a"], k)

C19_Witness ==
    /\ Finished(cluster, <<"Job", "job">>)
    /\ ListsKey(api["a"], <<"Job", "job">>)
    /\ Quiescent("a")
    /\ now = MaxRecycleTicks * workloadCheckInterval

----------------------------------------------------------------------------
(* Two passes of one controller over the same key, counting the PVCR write
   requests (Create or Update calls) each pass sends to the API server *)

Controllers == {"pvcr-manager", "node-collector", "usage-collector", "workload-recycler"}

\* The updater result of a collector for the PVCR it reads from the lister.
updaterResult(ctrl, c) ==
    IF ctrl = "node-collector" THEN nodeCollectorUpdate(c, lister[c])
    ELSE usageCollectorUpdate(c, lister[c])

\* Write requests one pass of controller ctrl over key c sends.
writesOf(ctrl, c) ==
    IF ctrl = "pvcr-manager"
    THEN IF pvc[c] = NoObj \/ Status(pvc, lister, c).err # ErrNil THEN 0 ELSE 1
    ELSE IF lister[c] = NoObj THEN 0
    ELSE IF ctrl = "workload-recycler"
    THEN IF Len(keptWorkloads(cluster, lister[c].spec.workloads, FALSE, now))
              = Len(lister[c].spec.workloads) THEN 0 ELSE 1
    ELSE IF updaterResult(ctrl, c) = NoObj THEN 0 ELSE 1

\* The PVCR store after one pass of controller ctrl over key c.
storeAfter(ctrl, c) ==
    IF ctrl = "pvcr-manager"
    THEN IF pvc[c] = NoObj THEN api
         ELSE IF lister[c] = NoObj THEN createPVCR(c)
         ELSE updatePVCR(c)
    ELSE IF writesOf(ctrl, c) = 0 \/ UpdateErr(api, c, lister[c]) # ErrNil THEN api
    ELSE IF ctrl = "workload-recycler"
    THEN [api EXCEPT ![c] = updatePVCStatus(
            [lister[c] EXCEPT !.spec.workloads =
                keptWorkloads(cluster, lister[c].spec.workloads, FALSE, now)])]
    ELSE [api EXCEPT ![c] = updaterResult(ctrl, c)]

\* A pass that reads the current PVCR: the lister has caught up.
FirstPass(ctrl, c) ==
    /\ lister[c] = api[c]
    /\ api' = storeAfter(ctrl, c)
    /\ output' = [kind |-> "pass", ctrl |-> ctrl, key |-> c, passes |-> 1,
                  writes |-> writesOf(ctrl, c)]
    /\ UNCHANGED <<now, pvc, lister, cluster, probeNodes, probeUsage, last, input>>

\* The same key again, after the informer has delivered the first pass's
\* write.
SecondPass(ctrl, c) ==
    /\ output # NoObj /\ output.passes = 1
    /\ output.ctrl = ctrl /\ output.key = c
    /\ lister[c] = api[c]
    /\ api' = storeAfter(ctrl, c)
    /\ output' = [output EXCEPT !.passes = 2, !.writes = @ + writesOf(ctrl, c)]
    /\ UNCHANGED <<now, pvc, lister, cluster, probeNodes, probeUsage, last, input>>

\* A first pass has run and its second pass has not.
BetweenPasses == output # NoObj /\ output.passes = 1

\* Between the two passes of a key nothing happens but the informer
\* delivering the PVCR: PVC, PV, probes, workloads and the clock stay as
\* they are and there is no other writer.
NextPasses ==
    \/ /\ ~BetweenPasses
       /\ \/ Tick
          \/ \E c \in Claims : InformerSync(c)
          \/ \E c \in Claims, nodes \in SortedNodeLists : ProbeNodesChange(c, nodes)
          \/ \E c \in Claims, u \in UsageReadings : ProbeUsageChange(c, u)
          \/ \E req \in Requests : \E sync \in Syncs(req) : Admit(req, sync)
          \/ \E ctrl \in Controllers, c \in Claims : FirstPass(ctrl, c)
    \/ /\ BetweenPasses
       /\ \/ InformerSync(output.key)
          \/ SecondPass(output.ctrl, output.key)

SpecPasses == InitResize /\ [][NextPasses]_vars

\* C20: two successive passes of one controller over one key with unchanged
\* inputs send at most one PVCR write request in total.
C20_SecondPassNoWrite ==
    (output # NoObj /\ output.passes = 2) => output.writes <= 1

C20_Witness ==
    /\ output # NoObj /\ output.passes = 2 /\ output.writes = 2
    /\ output.ctrl = "pvcr-manager"

----------------------------------------------------------------------------
(* The InUse/Available flip as a function of the PVCR it is applied to *)

\* PVCRs with up to MaxStatuses statuses, in any order and with repeats,
\* with and without a workload entry and a mounted node.
InitFlipInputs ==
    /\ now = 0
    /\ pvc = [c \in Claims |-> NoObj]
    /\ api = [c \in Claims |-> NoObj]
    /\ lister = [c \in Claims |-> NoObj]
    /\ cluster = {}
    /\ probeNodes = [c \in Claims |-> <<>>]
    /\ probeUsage = [c \in Claims |-> 0]
    /\ last = NoLast
    /\ input \in {[kind |-> "updatePVCStatus",
                   pvcr |-> [NewPVCR(NoObj, st) EXCEPT !.spec.workloads = l,
                                                       !.spec.mountedNodes = nodes]] :
                    st \in UNION {[1..k -> {ClaimStatusInUse, ClaimStatusAvailable,
                                            ClaimStatusExpanding}] : k \in 0..MaxStatuses},
                    l \in EntryLists(1),
                    nodes \in SortedNodeLists}
    /\ output = NoObj

\* updatePVCStatus applied to the input, then once more to its own result.
CallUpdatePVCStatus ==
    /\ input # NoObj /\ input.kind = "updatePVCStatus"
    /\ IF output = NoObj THEN TRUE ELSE output.calls < 2
    /\ output' = IF output = NoObj
                 THEN [kind |-> "result", calls |-> 1, before |-> input.pvcr,
                       pvcr |-> updatePVCStatus(input.pvcr)]
                 ELSE [kind |-> "result", calls |-> 2, before |-> output.pvcr,
                       pvcr |-> updatePVCStatus(output.pvcr)]
    /\ UNCHANGED <<now, pvc, api, lister, cluster, probeNodes, probeUsage, last, input>>

SpecFlip == InitFlipInputs /\ [][CallUpdatePVCStatus]_vars

\* C21: on a PVCR with no workloads and no mounted nodes, the flip applied
\* twice gives the statuses list the flip applied once gives.
C21_FlipIdempotent ==
    (output # NoObj /\ output.calls = 2 /\ Unused(input.pvcr)) =>
        output.pvcr.spec.statuses = output.before.spec.statuses

C21_Witness ==
    /\ output # NoObj /\ output.calls = 2 /\ Unused(input.pvcr)
    /\ Len(input.pvcr.spec.statuses) = MaxStatuses
    /\ ClaimStatusInUse \in Range(input.pvcr.spec.statuses)
    /\ ClaimStatusAvailable \notin Range(input.pvcr.spec.statuses)
    /\ output.pvcr.spec.statuses # input.pvcr.spec.statuses

\* Occurrences of x in sequence s.
Count(s, x) == Cardinality({i \in 1..Len(s) : s[i] = x})

\* C28: with workloads or mounted nodes left, the flip leaves statuses as
\* they are; with both empty it removes every InUse, leaves one Available
\* more only if there was none, and keeps the other statuses in their order.
C28_FlipEffect ==
    (output # NoObj /\ output.calls = 1) =>
        LET old == input.pvcr.spec.statuses
            new == output.pvcr.spec.statuses
            rest(s) == SelectSeq(s, LAMBDA x : x \notin {ClaimStatusInUse, ClaimStatusAvailable})
        IN  /\ output.pvcr.spec.workloads = input.pvcr.spec.workloads
            /\ output.pvcr.spec.mountedNodes = input.pvcr.spec.mountedNodes
            /\ ~Unused(input.pvcr) => new = old
            /\ Unused(input.pvcr) =>
                  /\ Count(new, ClaimStatusInUse) = 0
                  /\ Count(new, ClaimStatusAvailable)
                        = IF Count(old, ClaimStatusAvailable) = 0 THEN 1
                          ELSE Count(old, ClaimStatusAvailable)
                  /\ Count(old, ClaimStatusAvailable) = 0 =>
                        new = Append(rest(old), ClaimStatusAvailable)
                  /\ SelectSeq(new, LAMBDA x : x # ClaimStatusInUse)
                        = SelectSeq(old, LAMBDA x : x # ClaimStatusInUse)
                          \o (IF Count(old, ClaimStatusAvailable) = 0
                              THEN <<ClaimStatusAvailable>> ELSE <<>>)

C28_Witness ==
    /\ output # NoObj /\ output.calls = 1 /\ Unused(input.pvcr)
    /\ input.pvcr.spec.statuses
         = <<ClaimStatusInUse, ClaimStatusExpanding, ClaimStatusInUse>>
    /\ output.pvcr.spec.statuses = <<ClaimStatusExpanding, ClaimStatusAvailable>>

----------------------------------------------------------------------------
(* What the controllers and the gate write *)

\* A step of the status mirror, a collector, the recycler or the gate: the
\* steps that write the PVCR store or answer an admission request.
SystemStep == api' # api \/ last' # last

\* C22: no step of the controllers or the gate changes a PVC or its PV or
\* deletes a PVCR; what such a step writes is a created or updated PVCR.
C22_OnlyPVCRWrites ==
    [][SystemStep =>
          /\ pvc' = pvc
          /\ \A c \in Claims : api[c] # NoObj => api'[c] # NoObj
          /\ UNCHANGED <<cluster, probeNodes, probeUsage, now>>]_vars

C22_Witness ==
    /\ pvc["a"].deleting
    /\ api["a"] # NoObj /\ lister["a"] = api["a"]
    /\ api["a"].spec.workloads # <<>>
    /\ api["a"].spec.mountedNodes # <<>>
    /\ api["a"].spec.usageBytes # 0
    /\ api["a"].spec.statuses = <<ClaimStatusDeleting>>

----------------------------------------------------------------------------
(* Handle as a function of the admission request *)

\* Requests for an object of each of the seven kinds, with and without a
\* controller owner reference, on CREATE and UPDATE, finished or not, with
\* the claims its new and its old pod template mount.
InitHandleInputs ==
    /\ now = 0
    /\ pvc = [c \in Claims |-> NoObj]
    /\ api = [c \in Claims |-> NoObj]
    /\ lister = [c \in Claims |-> NoObj]
    /\ cluster = {}
    /\ probeNodes = [c \in Claims |-> <<>>]
    /\ probeUsage = [c \in Claims |-> 0]
    /\ last = NoLast
    /\ input \in {[kind |-> "Handle",
                   req |-> [Request(gvk, "w", 1, op, ctl, 1, vols, fin)
                              EXCEPT !.oldVolumes = old, !.decodable = dec]] :
                    gvk \in managers, op \in {Create, Update}, ctl \in BOOLEAN,
                    fin \in BOOLEAN, dec \in BOOLEAN,
                    vols \in {<<>>} \cup VolumeLists,
                    old \in {<<>>, <<Volume("a", FALSE)>>, <<Volume("b", FALSE)>>}}
    /\ output = NoObj

CallHandle ==
    /\ input # NoObj /\ input.kind = "Handle" /\ output = NoObj
    /\ output' = [kind |-> "result", h |-> Handle(input.req)]
    /\ UNCHANGED <<now, pvc, api, lister, cluster, probeNodes, probeUsage, last, input>>

SpecHandle == InitHandleInputs /\ [][CallHandle]_vars

\* C23: for an object of any of the seven kinds that carries an owner
\* reference with controller = true, Handle returns the IrrelevantWorkload
\* sentinel and no used volume.
C23_ControlledIsIrrelevant ==
    (output # NoObj /\ input.req.decodable /\ input.req.controller) =>
        /\ output.h.err = IrrelevantWorkload
        /\ output.h.used = <<>>

C23_Witness ==
    /\ output # NoObj /\ input.req.decodable /\ input.req.controller
    /\ input.req.gvk = jobGVK /\ input.req.operation = Create
    /\ output.h.err = ErrNil
    /\ output.h.used # <<>>

----------------------------------------------------------------------------
(* A Bound claim that loses its volume while the controllers and the gate run *)

\* The PV controller marks the claim Lost.
PVCLose(c) ==
    /\ pvc[c] # NoObj /\ pvc[c].phase = ClaimBound
    /\ pvc' = [pvc EXCEPT ![c].phase = ClaimLost]
    /\ UNCHANGED <<now, api, lister, cluster, probeNodes, probeUsage, last, input, output>>

\* The PV of a Bound claim is deleted: the PV lister no longer finds it.  The
\* PVC object itself does not change.
PVDelete(c) ==
    /\ pvc[c] # NoObj /\ pvc[c].phase = ClaimBound /\ pvc[c].pv # NoPV
    /\ pvc' = [pvc EXCEPT ![c].pv = NoPV]
    /\ UNCHANGED <<now, api, lister, cluster, probeNodes, probeUsage, last, input, output>>

\* The status mirror is run for a key on every PVC event and on every
\* resync of the PVC informer.
NextLost ==
    \/ Tick
    \/ \E c \in Claims : InformerSync(c)
    \/ \E c \in Claims : PVCLose(c)
    \/ \E c \in Claims : PVDelete(c)
    \/ \E c \in Claims : PVCDelete(c)
    \/ \E c \in Claims, nodes \in SortedNodeLists : ProbeNodesChange(c, nodes)
    \/ \E req \in Requests : \E sync \in Syncs(req) : Admit(req, sync)
    \/ \E c \in Claims : pvcrManagerSyncPVC(c)
    \/ \E c \in Claims : nodeCollectorSyncPVC(c)
    \/ \E c \in Claims : workloadRecyclerSyncPVCR(c, FALSE)

SpecLost == InitResize /\ [][NextLost]_vars

\* The claim is Lost, or Bound to a PV that is missing.
VolumeLost(c) ==
    /\ pvc[c] # NoObj
    /\ \/ pvc[c].phase = ClaimLost
       \/ pvc[c].phase = ClaimBound /\ pvc[c].pv = NoPV

\* C24 (as stated): after quiescence the PVCR of every claim that is Lost,
\* or Bound with its PV missing, has Lost in statuses.
C24_LostIsLost ==
    \A c \in Claims :
        (Quiescent(c) /\ VolumeLost(c)) => ClaimStatusLost \in Range(api[c].spec.statuses)

\* C24 (amended): the same for every such claim that is not being deleted.
C24_LostLiveIsLost ==
    \A c \in Claims :
        (Quiescent(c) /\ VolumeLost(c) /\ ~pvc[c].deleting) =>
            ClaimStatusLost \in Range(api[c].spec.statuses)

C24_Witness ==
    /\ Quiescent("a") /\ ~pvc["a"].deleting
    /\ pvc["a"].phase = ClaimBound /\ pvc["a"].pv = NoPV
    /\ api["a"].spec.workloads # <<>>
    /\ ClaimStatusLost \in Range(api["a"].spec.statuses)

\* C25: a write of the status mirror, a collector or the gate never drops a
\* workloads entry from a PVCR, and the recycler drops none whose workload
\* exists: an entry appended by Attach stays while its workload exists,
\* whatever stale copy the other writers work from.
C25_NoLostUpdate ==
    [][\A c \in Claims :
          api[c] # NoObj =>
              \A i \in 1..Len(api[c].spec.workloads) :
                  LET e == api[c].spec.workloads[i]
                  IN  <<e.ref.kind, e.ref.name>> \in cluster =>
                          /\ api'[c] # NoObj
                          /\ e \in Range(api'[c].spec.workloads)]_vars

\* An entry has been appended while the lister still holds the PVCR without
\* it and a mounted-nodes write computed from that copy is pending.
C25_Witness ==
    /\ api["a"] # NoObj /\ lister["a"] # NoObj
    /\ ListsKey(api["a"], <<"Deployment", "web">>)
    /\ <<"Deployment", "web">> \in cluster
    /\ lister["a"].spec.workloads = <<>>
    /\ nodeCollectorUpdate("a", lister["a"]) # NoObj
    /\ usageCollectorUpdate("a", lister["a"]) # NoObj
    /\ Status(pvc, lister, "a").statuses # lister["a"].spec.statuses

\* PVCR new is PVCR old with other values in the spec fields named in fields
\* only.
ChangesOnly(old, new, fields) ==
    /\ new # NoObj
    /\ new.owner = old.owner
    /\ \A f \in {"statuses", "workloads", "usageBytes", "mountedNodes"} \ fields :
          new.spec[f] = old.spec[f]

\* C26: an update written by the status mirror differs from the PVCR it
\* read in statuses only; by the usage collector in usageBytes only; by the
\* mounted-nodes collector in mountedNodes and statuses only; by the
\* recycler in workloads and statuses only.
C26_OwnFieldsOnly ==
    [][\A c \in Claims :
          (lister[c] # NoObj /\ api'[c] # api[c]) =>
              /\ pvcrManagerSyncPVC(c) => ChangesOnly(lister[c], api'[c], {"statuses"})
              /\ usageCollectorSyncPVC(c) => ChangesOnly(lister[c], api'[c], {"usageBytes"})
              /\ nodeCollectorSyncPVC(c) =>
                    ChangesOnly(lister[c], api'[c], {"mountedNodes", "statuses"})
              /\ \A apiErr \in BOOLEAN :
                    workloadRecyclerSyncPVCR(c, apiErr) =>
                        ChangesOnly(lister[c], api'[c], {"workloads", "statuses"})]_vars

\* Each of the four controllers has a write to make to the PVCR it reads.
C26_Witness ==
    /\ lister["a"] # NoObj /\ lister["a"] = api["a"]
    /\ updatePVCR("a") # api
    /\ nodeCollectorUpdate("a", lister["a"]) # NoObj
    /\ usageCollectorUpdate("a", lister["a"]) # NoObj
    /\ Len(keptWorkloads(cluster, lister["a"].spec.workloads, FALSE, now))
         < Len(lister["a"].spec.workloads)
    /\ lister["a"].spec.mountedNodes # <<>>
    /\ lister["a"].spec.usageBytes # 0

\* C27: a write of the recycler removes at least one entry; every entry it
\* removes belongs to a workload whose existence check succeeded and found
\* nothing, and was stamped workloadCheckDelay or more ago; the entries it
\* keeps are in the order they had.
C27_RecyclerRemovals ==
    [][\A c \in Claims :
          workloadRecyclerSyncPVCR(c, FALSE) =>
              LET old == lister[c].spec.workloads
                  new == api'[c].spec.workloads
              IN  /\ Len(new) < Len(old)
                  /\ new = SelectSeq(old, LAMBDA e : e \in Range(new))
                  /\ \A e \in Range(old) \ Range(new) :
                        /\ <<e.ref.kind, e.ref.name>> \notin cluster
                        /\ getManager(objRefToGVK(e.ref)) = ErrNil
                        /\ e.timestamp + workloadCheckDelay <= now]_vars

\* The recycler has removed the entry of deleted Deployment web and kept
\* those of Job job, which exists, and of TApp tapp, whose check fails.
C27_Witness ==
    /\ api["a"] # NoObj /\ lister["a"] # NoObj
    /\ ListsKey(lister["a"], <<"Deployment", "web">>)
    /\ ~ListsKey(api["a"], <<"Deployment", "web">>)
    /\ ListsKey(api["a"], <<"Job", "job">>) /\ <<"Job", "job">> \in cluster
    /\ ListsKey(api["a"], <<"TApp", "tapp">>) /\ <<"TApp", "tapp">> \notin cluster
    /\ Len(api["a"].spec.workloads) = 2

----------------------------------------------------------------------------
(* The work loop of one controller: its rate-limited queue, its source of
   keys, its workers and the stop signal.  The queue is held in input, the
   workers' positions in output. *)

Workers == {1, 2}

syncErrNotFoundFails(ctrl, c) ==
    IF ctrl = "pvcr-manager"
    THEN IF pvc[c] = NoObj THEN ErrNil
         ELSE IF lister[c] = NoObj
              THEN IF api[c] # NoObj THEN "AlreadyExists" ELSE ErrNil
         ELSE UpdateErr(api, c, lister[c])
    ELSE IF lister[c] = NoObj THEN "NotFound"
    ELSE IF ctrl = "node-collector" /\ MountedNodes(c).err # ErrNil THEN MountedNodes(c).err
    ELSE IF ctrl = "usage-collector" /\ Usage(c).err # ErrNil THEN Usage(c).err
    ELSE IF writesOf(ctrl, c) = 0 THEN ErrNil
    ELSE UpdateErr(api, c, lister[c])

\* The error syncPVC (syncPVCR for the recycler) returns for key c.
syncErr(ctrl, c) ==
    IF ctrl = "pvcr-manager"
    THEN IF pvc[c] = NoObj THEN ErrNil
         ELSE IF lister[c] = NoObj
              THEN IF api[c] # NoObj THEN "AlreadyExists" ELSE ErrNil
         ELSE UpdateErr(api, c, lister[c])
    ELSE IF lister[c] = NoObj THEN ErrNil
    ELSE IF ctrl = "node-collector" /\ MountedNodes(c).err # ErrNil THEN MountedNodes(c).err
    ELSE IF ctrl = "usage-collector" /\ Usage(c).err # ErrNil THEN Usage(c).err
    ELSE IF writesOf(ctrl, c) = 0 THEN ErrNil
    ELSE UpdateErr(api, c, lister[c])

\* queue.Add(k) on queue record q: dropped when k is already dirty, held
\* back while k is being processed.
Add(q, k) ==
    IF k \in q.dirty THEN q
    ELSE IF k \in q.processing THEN [q EXCEPT !.dirty = @ \cup {k}]
    ELSE [q EXCEPT !.dirty = @ \cup {k}, !.queue = Append(@, k)]

InitWork ==
    /\ now = 0
    /\ pvc = [c \in Claims |-> IF c = "a" THEN PVC(ClaimBound, FALSE, {}, CephRBD) ELSE NoObj]
    /\ api = [c \in Claims |-> NoObj]
    /\ lister = [c \in Claims |-> NoObj]
    /\ cluster = {}
    /\ probeNodes = [c \in Claims |-> <<>>]
    /\ probeUsage = [c \in Claims |-> 0]
    /\ last = NoLast
    /\ \E ctrl \in Controllers :
          input = [kind |-> "workqueue", ctrl |-> ctrl, queue |-> <<>>, dirty |-> {},
                   processing |-> {}, waiting |-> {}, failures |-> [c \in Claims |-> 0],
                   stopped |-> FALSE, ticker |-> "running"]
    /\ output = [w \in Workers |-> [pc |-> "loop", key |-> ""]]

\* The API server removes a PVC; the garbage collector then removes the
\* PVCR it owns.
PVCRemove(c) ==
    /\ pvc[c] # NoObj
    /\ pvc' = [pvc EXCEPT ![c] = NoObj]
    /\ UNCHANGED <<now, api, lister, cluster, probeNodes, probeUsage, last, input, output>>

PVCRCollect(c) ==
    /\ pvc[c] = NoObj /\ api[c] # NoObj
    /\ api' = [api EXCEPT ![c] = NoObj]
    /\ UNCHANGED <<now, pvc, lister, cluster, probeNodes, probeUsage, last, input, output>>

\* The stop channel is closed.
Stop ==
    /\ ~input.stopped
    /\ input' = [input EXCEPT !.stopped = TRUE]
    /\ UNCHANGED <<now, pvc, api, lister, cluster, probeNodes, probeUsage, last, output>>

\* The source of keys adds one: resync, run by the ticker, for every PVC
\* (every PVCR for the recycler); pvcAdd and pvcUpdate, run by the PVC
\* informer, for the status mirror.
Enqueue(k) ==
    /\ input.ticker = "running"
    /\ IF input.ctrl = "workload-recycler" THEN lister[k] # NoObj ELSE pvc[k] # NoObj
    /\ input' = Add(input, k)
    /\ UNCHANGED <<now, pvc, api, lister, cluster, probeNodes, probeUsage, last, output>>

\* wait.Until of the ticker returns once the stop channel is closed.
TickerStop ==
    /\ input.stopped /\ input.ticker = "running"
    /\ input' = [input EXCEPT !.ticker = "done"]
    /\ UNCHANGED <<now, pvc, api, lister, cluster, probeNodes, probeUsage, last, output>>

\* The delay of AddRateLimited(k) is over: the queue adds k.
RateLimiterFire(k) ==
    /\ k \in input.waiting
    /\ input' = [Add(input, k) EXCEPT !.waiting = @ \ {k}]
    /\ UNCHANGED <<now, pvc, api, lister, cluster, probeNodes, probeUsage, last, output>>

\* wait.Until of a worker: return if the stop channel is closed, else call
\* syncPVCs.
WorkerLoop(w) ==
    /\ output[w].pc = "loop"
    /\ output' = [output EXCEPT ![w].pc = IF input.stopped THEN "done" ELSE "get"]
    /\ UNCHANGED <<now, pvc, api, lister, cluster, probeNodes, probeUsage, last, input>>

\* queue.Get() returns the first key; it blocks while the queue is empty.
WorkerGet(w) ==
    /\ output[w].pc = "get"
    /\ input.queue # <<>>
    /\ input' = [input EXCEPT !.queue = Tail(@),
                              !.dirty = @ \ {Head(input.queue)},
                              !.processing = @ \cup {Head(input.queue)}]
    /\ output' = [output EXCEPT ![w] = [pc |-> "sync", key |-> Head(input.queue)]]
    /\ UNCHANGED <<now, pvc, api, lister, cluster, probeNodes, probeUsage, last>>

\* syncPVC(key), then AddRateLimited(key) or Forget(key), then Done(key).
WorkerSync(w) ==
    LET k == output[w].key
        err == syncErr(input.ctrl, k)
        q1 == IF err # ErrNil
              THEN [input EXCEPT !.waiting = @ \cup {k},
                                 !.failures[k] = IF @ < MaxFailures THEN @ + 1 ELSE @]
              ELSE [input EXCEPT !.failures[k] = 0]
        q2 == [q1 EXCEPT !.processing = @ \ {k}]
    IN  /\ output[w].pc = "sync"
        /\ api' = storeAfter(input.ctrl, k)
        /\ input' = IF k \in q2.dirty THEN [q2 EXCEPT !.queue = Append(@, k)] ELSE q2
        /\ output' = [output EXCEPT ![w] = [pc |-> "loop", key |-> ""]]
        /\ UNCHANGED <<now, pvc, lister, cluster, probeNodes, probeUsage, last>>

NextWork ==
    \/ \E c \in Claims : InformerSync(c)
    \/ \E c \in Claims, nodes \in SortedNodeLists : ProbeNodesChange(c, nodes)
    \/ \E c \in Claims : PVCRemove(c)
    \/ \E c \in Claims : PVCRCollect(c)
    \/ \E c \in Claims : pvcrManagerSyncPVC(c)
    \/ Stop
    \/ TickerStop
    \/ \E k \in Claims : Enqueue(k)
    \/ \E k \in Claims : RateLimiterFire(k)
    \/ \E w \in Workers : WorkerLoop(w)
    \/ \E w \in Workers : WorkerGet(w)
    \/ \E w \in Workers : WorkerSync(w)

\* Goroutines that can run do run, and the timers of the rate limiter fire.
FairWork ==
    /\ WF_vars(TickerStop)
    /\ \A k \in Claims : WF_vars(RateLimiterFire(k))
    /\ \A w \in Workers : WF_vars(WorkerLoop(w)) /\ WF_vars(WorkerGet(w)) /\ WF_vars(WorkerSync(w))

SpecWork == InitWork /\ [][NextWork]_vars /\ FairWork

\* Worker w finishes the sync of its key in this step.
SyncStep(w) == output[w].pc = "sync" /\ output'[w].pc = "loop"

\* The work loop treated key k as synced: backoff reset, no delayed re-add.
Forgotten(k) == input'.failures[k] = 0 /\ input'.waiting = input.waiting

\* The work loop re-enqueued key k with backoff.
Retried(k) == input'.failures[k] > 0 /\ k \in input'.waiting

\* A key waiting for its backoff delay is processed again unless the stop
\* signal fires first.
RetriedUntilSuccess ==
    \A k \in Claims :
        (input.kind = "workqueue" /\ k \in input.waiting)
            ~> (k \in input.processing \/ input.stopped)

C30_StopTerminates ==
    /\ input.stopped ~> (input.ticker = "done" /\ \A w \in Workers : output[w].pc = "done")
    /\ [][input.stopped =>
            \A w \in Workers : ~(output[w].pc = "get" /\ output'[w].pc = "sync")]_vars

\* After the stop signal a worker is still blocked in queue.Get() on the
\* empty queue, with no key left to arrive.
C30_Witness ==
    /\ input.kind = "workqueue" /\ input.stopped /\ input.ticker = "done"
    /\ input.queue = <<>> /\ input.waiting = {} /\ input.processing = {}
    /\ output[1].pc = "get" /\ output[2].pc = "done"

----------------------------------------------------------------------------
(* Released volumes computed by Handle *)

\* jobFinished / podCompleted / tappCompleted of the submitted object; the
\* four appManager kinds have no terminal state.
Terminal(req) == req.gvk \in {jobGVK, podGVK, tappGVK} /\ req.finished

\* C31: for an Update request of any workload kind that is not terminal,
\* Handle returns released = claims(old revision) - claims(new revision):
\* every claim of the old revision that the new one does not mount is
\* released, and no claim of the new revision is.
C31_ReleasedIsOldMinusNew ==
    (/\ output # NoObj /\ input.kind = "Handle"
     /\ input.req.operation = Update /\ ~Terminal(input.req)
     /\ output.h.err = ErrNil) =>
        ClaimNames(output.h.released) =
            ClaimNames(input.req.oldVolumes) \ ClaimNames(input.req.volumes)

C31_Witness ==
    /\ output # NoObj /\ input.kind = "Handle"
    /\ input.req.operation = Update /\ ~Terminal(input.req)
    /\ input.req.gvk = tappGVK
    /\ output.h.err = ErrNil
    /\ input.req.oldVolumes = <<Volume("b", FALSE)>>
    /\ input.req.volumes = <<Volume("a", FALSE)>>
    /\ output.h.released = <<>>

\* C32: for an Update request of a Job, Pod or TApp that is already
\* terminal, Handle returns used = empty and released = the claims the
\* workload used before.
C32_TerminalReleasesAll ==
    (/\ output # NoObj /\ input.kind = "Handle"
     /\ input.req.operation = Update /\ Terminal(input.req)
     /\ output.h.err = ErrNil) =>
        /\ output.h.used = <<>>
        /\ ClaimNames(output.h.released) = ClaimNames(input.req.oldVolumes)

C32_Witness ==
    /\ output # NoObj /\ input.kind = "Handle"
    /\ input.req.operation = Update /\ Terminal(input.req)
    /\ input.req.gvk = jobGVK
    /\ output.h.err = ErrNil
    /\ input.req.oldVolumes = <<Volume("a", FALSE)>>
    /\ input.req.volumes = <<Volume("a", FALSE)>>
    /\ output.h.used = <<>>
    /\ output.h.released = <<>>

\* C33: for every workload descriptor that Handle of a registered adapter
\* emits, the dispatcher's Exist and MountedVolumes, which both look the
\* adapter up by objRefToGVK of the descriptor's object reference, route to
\* the adapter that emitted it and never report "no available admitor".
C33_DescriptorRoutesBack ==
    (output # NoObj /\ input.kind = "Handle" /\ output.h.err = ErrNil) =>
        /\ objRefToGVK(output.h.w.ref) = input.req.gvk
        /\ getManager(objRefToGVK(output.h.w.ref)) = ErrNil
        /\ Exist({}, output.h.w.ref, FALSE).err # "NoAvailableAdmitor"

C33_Witness ==
    /\ output # NoObj /\ input.kind = "Handle" /\ output.h.err = ErrNil
    /\ input.req.gvk = tappGVK
    /\ objRefToGVK(output.h.w.ref) = <<"tke.cloud.tencent.com", "v1", "TApp">>
    /\ Exist({}, output.h.w.ref, FALSE).err = "NoAvailableAdmitor"

----------------------------------------------------------------------------
(* The two lock-guarded maps: CephFS MDS sessions and kubelet volume usages *)

\* generateSessionSet(sessions): path -> hostnames, skipping sessions with
\* an empty root or hostname.
generateSessionSet(sessions) ==
    LET valid == {i \in 1..Len(sessions) :
                    sessions[i].root # "" /\ sessions[i].hostname # ""}
    IN  [r \in {sessions[i].root : i \in valid} |->
            {sessions[i].hostname : i \in {j \in valid : sessions[j].root = r}}]

\* One cephFSVolume (input.kind = "mds": its mdsSessions map, the periodic
\* listMDSSessions goroutine and a caller of MountedNodes) or one
\* VolumeUsageCollector (input.kind = "usages": the entry of one volume on
\* one node, two callers of Get and one caller of Update).
InitShared ==
    /\ now = 0
    /\ pvc = [c \in Claims |-> NoObj]
    /\ api = [c \in Claims |-> NoObj]
    /\ lister = [c \in Claims |-> NoObj]
    /\ cluster = {}
    /\ probeNodes = [c \in Claims |-> <<>>]
    /\ probeUsage = [c \in Claims |-> 0]
    /\ last = NoLast
    /\ \/ /\ input = [kind |-> "mds", mutex |-> "", sessions |-> <<>>,
                      mds |-> <<>>, refreshed |-> FALSE]
          /\ output = [refresh |-> [pc |-> "idle", i |-> 1],
                       reader |-> [pc |-> "idle", path |-> "", hosts |-> Nil]]
       \/ /\ input = [kind |-> "usages", readers |-> {}, writer |-> "",
                      entry |-> [exist |-> FALSE, value |-> 0, stale |-> FALSE]]
          /\ output = [g1 |-> [pc |-> "idle", value |-> 0, exist |-> FALSE],
                       g2 |-> [pc |-> "idle", value |-> 0, exist |-> FALSE],
                       u |-> [pc |-> "idle", values |-> <<>>]]

\* cephFSVolume.listMDSSessions, one step of the goroutine at a time: the
\* outputs of `ceph mds stat` and of `session ls` on each active MDS
\* (err when the command fails), then for each MDS in turn
\* mdsSessions.Update: Lock, s.sessions = sessions, Unlock.
listMDSSessions ==
    LET Session(root, host) == [root |-> root, hostname |-> host]
        SessionLists == {<<>>, <<Session("p", "n1")>>, <<Session("p", "n2")>>,
                         <<Session("p", "n1"), Session("q", "n2")>>,
                         <<Session("", "n1"), Session("q", "")>>}
        Answers == {[err |-> TRUE, sessions |-> <<>>]}
                   \cup {[err |-> FALSE, sessions |-> l] : l \in SessionLists}
        Reports == UNION {[1..n -> Answers] : n \in 0..MaxMDS}
        r == output.refresh
    IN  /\ input.kind = "mds"
        /\ CASE r.pc = "idle" ->
                  \E reports \in Reports :
                     /\ input' = [input EXCEPT !.mds = reports, !.refreshed = FALSE]
                     /\ output' = [output EXCEPT !.refresh = [pc |-> "loop", i |-> 1]]
             [] r.pc = "loop" ->
                  IF r.i > Len(input.mds)
                  THEN /\ input' = [input EXCEPT !.refreshed = TRUE]
                       /\ output' = [output EXCEPT !.refresh = [pc |-> "idle", i |-> 1]]
                  ELSE /\ input' = input
                       /\ output' = [output EXCEPT !.refresh =
                                       IF input.mds[r.i].err
                                       THEN [pc |-> "loop", i |-> r.i + 1]
                                       ELSE [pc |-> "lock", i |-> r.i]]
             [] r.pc = "lock" ->
                  /\ input.mutex = ""
                  /\ input' = [input EXCEPT !.mutex = "refresh"]
                  /\ output' = [output EXCEPT !.refresh.pc = "write"]
             [] r.pc = "write" ->
                  /\ input' = [input EXCEPT !.sessions = generateSessionSet(input.mds[r.i].sessions)]
                  /\ output' = [output EXCEPT !.refresh.pc = "unlock"]
             [] r.pc = "unlock" ->
                  /\ input' = [input EXCEPT !.mutex = ""]
                  /\ output' = [output EXCEPT !.refresh = [pc |-> "loop", i |-> r.i + 1]]
        /\ UNCHANGED <<now, pvc, api, lister, cluster, probeNodes, probeUsage, last>>

\* cephFSVolume.MountedNodes(pv): mdsSessions.Get(path) reads s.sessions
\* without taking the mutex; a path without sessions gives nil.
cephFSMountedNodes ==
    /\ input.kind = "mds"
    /\ \/ /\ output.reader.pc = "idle"
          /\ \E path \in {"p", "q"} :
                output' = [output EXCEPT !.reader = [pc |-> "get", path |-> path, hosts |-> Nil]]
       \/ /\ output.reader.pc = "get"
          /\ output' = [output EXCEPT !.reader.pc = "idle",
                           !.reader.hosts =
                               IF output.reader.path \in DOMAIN input.sessions
                               THEN input.sessions[output.reader.path] ELSE Nil]
    /\ UNCHANGED <<now, pvc, api, lister, cluster, probeNodes, probeUsage, last, input>>

\* usages.Get(nodeName, key) by caller t: RLock, look the entry up, write
\* usage.lastQuery, RUnlock.  lastQuery is kept as "older than usageTimeout
\* or not"; a write of lastQuery that overlaps another one leaves either.
usagesGet(t) ==
    /\ input.kind = "usages"
    /\ CASE output[t].pc = "idle" ->
              /\ input.writer = ""
              /\ input' = [input EXCEPT !.readers = @ \cup {t}]
              /\ output' = [output EXCEPT ![t].pc = "touch"]
         [] output[t].pc = "touch" ->
              /\ output' = [output EXCEPT ![t] = [pc |-> "runlock",
                                value |-> IF input.entry.exist THEN input.entry.value ELSE 0,
                                exist |-> input.entry.exist]]
              /\ IF ~input.entry.exist THEN input' = input
                 ELSE IF \E o \in {"g1", "g2"} \ {t} : output[o].pc = "touch"
                      THEN \E torn \in BOOLEAN : input' = [input EXCEPT !.entry.stale = torn]
                      ELSE input' = [input EXCEPT !.entry.stale = FALSE]
         [] output[t].pc = "runlock" ->
              /\ input' = [input EXCEPT !.readers = @ \ {t}]
              /\ output' = [output EXCEPT ![t].pc = "idle"]
    /\ UNCHANGED <<now, pvc, api, lister, cluster, probeNodes, probeUsage, last>>

\* usages.Update(nodeName, values): Lock, set the value of every key in
\* values (a new entry starts with lastQuery = now), delete the entries
\* whose lastQuery is older than usageTimeout, Unlock.
usagesUpdate ==
    /\ input.kind = "usages"
    /\ CASE output.u.pc = "idle" ->
              /\ input.writer = "" /\ input.readers = {}
              /\ input' = [input EXCEPT !.writer = "u"]
              /\ \E values \in {<<>>, <<1>>, <<2>>} :
                    output' = [output EXCEPT !.u = [pc |-> "write", values |-> values]]
         [] output.u.pc = "write" ->
              LET e == input.entry
                  set == IF output.u.values = <<>> THEN e
                         ELSE [exist |-> TRUE, value |-> output.u.values[1],
                               stale |-> e.exist /\ e.stale]
                  cleared == IF set.exist /\ set.stale
                             THEN [exist |-> FALSE, value |-> 0, stale |-> FALSE] ELSE set
              IN  /\ input' = [input EXCEPT !.entry = cleared]
                  /\ output' = [output EXCEPT !.u.pc = "unlock"]
         [] output.u.pc = "unlock" ->
              /\ input' = [input EXCEPT !.writer = ""]
              /\ output' = [output EXCEPT !.u.pc = "idle"]
    /\ UNCHANGED <<now, pvc, api, lister, cluster, probeNodes, probeUsage, last>>

\* usageTimeout passes without a query of the entry.
usageExpire ==
    /\ input.kind = "usages"
    /\ input.entry.exist /\ ~input.entry.stale
    /\ input' = [input EXCEPT !.entry.stale = TRUE]
    /\ UNCHANGED <<now, pvc, api, lister, cluster, probeNodes, probeUsage, last, output>>

NextShared ==
    \/ listMDSSessions
    \/ cephFSMountedNodes
    \/ \E t \in {"g1", "g2"} : usagesGet(t)
    \/ usagesUpdate
    \/ usageExpire

SpecShared == InitShared /\ [][NextShared]_vars

\* C34: every access to an entry of the usage-collector map is made under
\* the read-write lock, with writes excluding every other access: no two threads
\* are at an access of the same entry at the same time when one of them
\* writes, the lastQuery write of Get included.
C34_NoConcurrentEntryWrite ==
    (input.kind = "usages" /\ input.entry.exist) =>
        /\ ~(output.g1.pc = "touch" /\ output.g2.pc = "touch")
        /\ \A t \in {"g1", "g2"} : ~(output[t].pc = "touch" /\ output.u.pc = "write")

C34_Witness ==
    /\ input.kind = "usages" /\ input.entry.exist
    /\ output.g1.pc = "touch" /\ output.g2.pc = "touch"
    /\ input.readers = {"g1", "g2"} /\ input.writer = ""

\* C35: every read and every write of the CephFS MDS-session map is made
\* while holding its mutex: a MountedNodes lookup is never at its read of
\* the map while the periodic refresh is at its swap of the map.
C35_GetHoldsMutex ==
    input.kind = "mds" =>
        /\ output.refresh.pc = "write" => input.mutex = "refresh"
        /\ ~(output.reader.pc = "get" /\ output.refresh.pc = "write")

C35_Witness ==
    /\ input.kind = "mds"
    /\ output.reader.pc = "get" /\ output.refresh.pc = "write"
    /\ input.mutex = "refresh"

\* The path -> hostnames map of the sessions of all MDSes that answered.
UnionOfReports(mds) ==
    LET valid == UNION {{<<k, j>> : j \in {n \in 1..Len(mds[k].sessions) :
                                            /\ mds[k].sessions[n].root # ""
                                            /\ mds[k].sessions[n].hostname # ""}} :
                        k \in {m \in 1..Len(mds) : ~mds[m].err}}
    IN  [r \in {mds[x[1]].sessions[x[2]].root : x \in valid} |->
            {mds[x[1]].sessions[x[2]].hostname :
                x \in {y \in valid : mds[y[1]].sessions[y[2]].root = r}}]

\* C36: after each periodic MDS refresh in which an MDS answered, the
\* path-to-hostnames map equals the union of the sessions reported by all
\* up:active MDSes.
C36_RefreshIsUnion ==
    (/\ input.kind = "mds" /\ input.refreshed /\ output.refresh.pc = "idle"
     /\ \E k \in 1..Len(input.mds) : ~input.mds[k].err) =>
        input.sessions = UnionOfReports(input.mds)

C36_Witness ==
    /\ input.kind = "mds" /\ input.refreshed /\ output.refresh.pc = "idle"
    /\ Len(input.mds) = 2
    /\ ~input.mds[1].err /\ ~input.mds[2].err
    /\ "p" \in DOMAIN UnionOfReports(input.mds)
    /\ "n1" \in UnionOfReports(input.mds)["p"]
    /\ "p" \notin DOMAIN input.sessions
    /\ output.reader.pc = "idle" /\ output.reader.path = "p" /\ output.reader.hosts = Nil

----------------------------------------------------------------------------
(* Denied admissions and the PVCR store *)

\* C37: Attach never creates a PVCR: when the PVCR of the first claim a
\* workload uses is not in the lister that Attach reads, Attach returns the
\* lister's not-found error, the request is denied with that status, and
\* no PVCR is created or written.
C37_AttachNeverCreates ==
    \A req \in GateRequests : \A sync \in Syncs(req) :
        LET h == Handle(req)
            out == handleWorkload(pvc, api, lister, req, sync, now)
        IN  /\ \A c \in Claims : api[c] = NoObj => out.api[c] = NoObj
            /\ (/\ h.err = ErrNil /\ Len(h.used) >= 1
                /\ getVolume(pvc, h.used[1].claimName) = ErrNil
                /\ (IF sync[1] THEN api ELSE lister)[h.used[1].claimName] = NoObj) =>
                    /\ out.attachErr = "PVCRNotFound"
                    /\ ~out.allowed
                    /\ out.code = StatusNotFound
                    /\ out.api = api

\* A request was denied with not found while the status mirror had created
\* the PVCR and the lister had not received it yet.
C37_Witness ==
    /\ Responded /\ ~last.allowed
    /\ last.attachErr = "PVCRNotFound" /\ last.code = StatusNotFound
    /\ pvc["a"].phase = ClaimBound
    /\ lister["a"] = NoObj
    /\ api["a"] # NoObj /\ api["a"].spec.workloads = <<>>

\* C38: a denied admission is not rolled back: when Attach fails at the
\* k-th claim of a workload, the entries this request appended to the PVCRs
\* of the claims before it are in those PVCRs after the denial, and no step
\* of the gate, the informer or the status mirror removes an entry.
C38_DenialKeepsEntries ==
    /\ [](\A req \in GateRequests : \A sync \in Syncs(req) :
             LET h == Handle(req)
                 out == handleWorkload(pvc, api, lister, req, sync, now)
             IN  (h.err = ErrNil /\ ~out.allowed) =>
                     \A i \in 1..(out.attempted - 1) :
                         Lists(out.api[h.used[i].claimName], h.w.ref))
    /\ [][\A c \in Claims :
             api[c] # NoObj =>
                 /\ api'[c] # NoObj
                 /\ Range(api[c].spec.workloads) \subseteq Range(api'[c].spec.workloads)]_vars

\* Deployment web was denied at claim a, still being provisioned, after its
\* entry had been appended to the PVCR of claim b.
C38_Witness ==
    /\ Responded /\ ~last.allowed /\ last.attachErr = "VolumeStillCreating"
    /\ pvc["a"].phase = ClaimPending
    /\ api["b"] # NoObj
    /\ \E i \in 1..Len(api["b"].spec.workloads) :
          /\ api["b"].spec.workloads[i].ref.kind = "Deployment"
          /\ api["b"].spec.workloads[i].ref.name = "web"
    /\ api["a"] # NoObj => api["a"].spec.workloads = <<>>

----------------------------------------------------------------------------
(* The CephRBD probe as a function of the outputs of the rbd commands *)

\* An error is the sequence of the parts of its message, <<>> being nil.
\* A run of an rbd command: failed (non-zero exit, execCmd wraps stderr
\* into its error) or not, and then its standard output: JSON or not, and
\* the decoded data.
\* isRBDImageNotFound(err): the message contains the not-found text.
isRBDImageNotFound(err) == "No such file or directory" \in Range(err)

\* parseAddress(address): the text before the first ":" of "host:port/nonce",
\* an address being the sequence of its parts.
parseAddress(address) ==
    SubSeq(address, 1,
           (CHOOSE i \in 1..Len(address) :
               address[i] = ":" /\ \A j \in 1..(i - 1) : address[j] # ":") - 1)

\* cephRBDVolume.listRBDWatchers(info) on the run of `rbd status`.
listRBDWatchers(run) ==
    IF run.failed
    THEN [hosts |-> <<>>,
          err |-> <<"status rbd image failed", "execute cmd failed output", run.stderr>>]
    ELSE IF ~run.json
         THEN IF isRBDImageNotFound(<<"invalid character">>)
              THEN [hosts |-> <<>>, err |-> <<>>]
              ELSE [hosts |-> <<>>, err |-> <<"unmarshal watchers failed", "invalid character">>]
    ELSE [hosts |-> SelectSeq([i \in 1..Len(run.data) |-> parseAddress(run.data[i])],
                              LAMBDA host : Len(host) > 0),
          err |-> <<>>]

\* cephRBDVolume.listRBDLockers(info) on the run of `rbd lock list`.
listRBDLockers(run) ==
    IF run.failed
    THEN [hosts |-> <<>>,
          err |-> <<"status rbd image failed", "execute cmd failed output", run.stderr>>]
    ELSE IF ~run.json
         THEN IF isRBDImageNotFound(<<"invalid character">>)
              THEN [hosts |-> <<>>, err |-> <<>>]
              ELSE [hosts |-> <<>>, err |-> <<"unmarshal lockers failed", "invalid character">>]
    ELSE [hosts |-> SelectSeq([i \in 1..Len(run.data) |-> parseAddress(run.data[i])],
                              LAMBDA host : Len(host) > 0),
          err |-> <<>>]

\* cephRBDVolume.MountedNodes(pv): the sorted set of watchers and lockers.
cephRBDMountedNodes(status, lock) ==
    LET watchers == listRBDWatchers(status)
        lockers == listRBDLockers(lock)
    IN  IF watchers.err # <<>> THEN [nodes |-> <<>>, err |-> watchers.err]
        ELSE IF lockers.err # <<>> THEN [nodes |-> <<>>, err |-> lockers.err]
        ELSE [nodes |-> SelectSeq(<<<<"n1">>, <<"n2">>>>,
                                  LAMBDA h : h \in Range(watchers.hosts \o lockers.hosts)),
              err |-> <<>>]

\* cephRBDVolume.Usage(pv) = getUsageByDu(pv) on the run of `rbd du`.
getUsageByDu(run) ==
    IF run.failed
    THEN IF isRBDImageNotFound(<<"execute cmd failed output", run.stderr>>)
         THEN [usage |-> 0, err |-> <<>>]
         ELSE [usage |-> 0, err |-> <<"diff rbd volume failed", "execute cmd failed output", run.stderr>>]
    ELSE IF ~run.json
         THEN [usage |-> 0, err |-> <<"unmarshal layer info of rbd volume failed">>]
    ELSE IF Len(run.data) # 1
         THEN [usage |-> 0, err |-> <<"unexpect result count of du">>]
    ELSE [usage |-> run.data[1], err |-> <<>>]

\* The runs of `rbd status`, `rbd lock list` and `rbd du` for one image.
InitRBDInputs ==
    LET Failed(stderr) == [failed |-> TRUE, stderr |-> stderr, json |-> FALSE, data |-> <<>>]
        Out(json, data) == [failed |-> FALSE, stderr |-> "", json |-> json, data |-> data]
        Failures == {Failed("No such file or directory"), Failed("Connection timed out")}
        Address(host) == IF host = "" THEN <<":", "0/1">> ELSE <<host, ":", "0/1">>
        AddressLists == {<<>>, <<Address("n1")>>, <<Address("n2"), Address("n1")>>,
                         <<Address("")>>}
        HostRuns == Failures \cup {Out(FALSE, <<>>)} \cup {Out(TRUE, a) : a \in AddressLists}
        DuRuns == Failures \cup {Out(FALSE, <<>>)}
                  \cup {Out(TRUE, d) : d \in {<<>>, <<5>>, <<5, 7>>}}
    IN  /\ now = 0
        /\ pvc = [c \in Claims |-> NoObj]
        /\ api = [c \in Claims |-> NoObj]
        /\ lister = [c \in Claims |-> NoObj]
        /\ cluster = {}
        /\ probeNodes = [c \in Claims |-> <<>>]
        /\ probeUsage = [c \in Claims |-> 0]
        /\ last = NoLast
        /\ input \in {[kind |-> "rbd", status |-> s, lock |-> l, du |-> d] :
                        s \in HostRuns, l \in HostRuns, d \in DuRuns}
        /\ output = NoObj

CallRBD ==
    /\ input # NoObj /\ input.kind = "rbd" /\ output = NoObj
    /\ output' = [kind |-> "result",
                  mounted |-> cephRBDMountedNodes(input.status, input.lock),
                  usage |-> getUsageByDu(input.du)]
    /\ UNCHANGED <<now, pvc, api, lister, cluster, probeNodes, probeUsage, last, input>>

SpecRBD == InitRBDInputs /\ [][CallRBD]_vars

\* C39: for an RBD image that reports "not found" (every rbd command on it
\* fails with "No such file or directory"), MountedNodes returns an empty
\* list without error and Usage returns 0 without error.
C39_ImageNotFoundIsEmpty ==
    (/\ output # NoObj /\ input.kind = "rbd"
     /\ input.status.failed /\ input.status.stderr = "No such file or directory"
     /\ input.lock.failed /\ input.lock.stderr = "No such file or directory"
     /\ input.du.failed /\ input.du.stderr = "No such file or directory") =>
        /\ output.mounted = [nodes |-> <<>>, err |-> <<>>]
        /\ output.usage = [usage |-> 0, err |-> <<>>]

C39_Witness ==
    /\ output # NoObj /\ input.kind = "rbd"
    /\ input.status.failed /\ input.status.stderr = "No such file or directory"
    /\ input.lock.failed /\ input.lock.stderr = "No such file or directory"
    /\ input.du.failed /\ input.du.stderr = "No such file or directory"
    /\ output.mounted.err = <<"status rbd image failed", "execute cmd failed output", "No such file or directory">>
    /\ output.usage = [usage |-> 0, err |-> <<>>]

----------------------------------------------------------------------------
(* The HTTP handler of the admission gate *)

\* admitor.handle(w, req): what it writes to the ResponseWriter.  A body is
\* absent, unreadable, not an AdmissionReview, or an AdmissionReview whose
\* Request pointer is set or nil; the log statement after decoding and
\* handleWorkload both dereference request.Request, and a nil dereference
\* panics before anything is written.
handle(P, A, L, body, sync, t) ==
    LET Plain(code) == [written |-> TRUE, panic |-> FALSE, status |-> code,
                        review |-> NoObj, api |-> A, lister |-> L]
    IN  CASE body.kind = "nil" -> Plain(StatusBadRequest)
          [] body.kind = "unreadable" -> Plain(StatusInternalServerError)
          [] body.kind = "undecodable" -> Plain(StatusBadRequest)
          [] body.kind = "review" ->
                IF body.request = NoObj
                THEN [written |-> FALSE, panic |-> TRUE, status |-> CodeUnset,
                      review |-> NoObj, api |-> A, lister |-> L]
                ELSE LET out == handleWorkload(P, A, L, body.request.object, sync, t)
                     IN  [written |-> TRUE, panic |-> FALSE, status |-> StatusOK,
                          review |-> [kind |-> "review", uid |-> body.request.uid,
                                      allowed |-> out.allowed, code |-> out.code],
                          api |-> out.api, lister |-> out.lister]

\* HTTP requests sent to the handler while claim "a" is being provisioned
\* and claim "b" is Bound: the sync of a review with a request tells, per
\* used claim, whether the lister has caught up before its Attach.
InitHTTPInputs ==
    /\ now = 0
    /\ pvc = [c \in Claims |-> IF c = "a" THEN PVC(ClaimPending, FALSE, {}, NoPV)
                                ELSE PVC(ClaimBound, FALSE, {}, CephFS)]
    /\ api = [c \in Claims |-> IF c = "a" THEN NoObj ELSE NewPVCR(OwnerReference(c), <<ClaimStatusAvailable>>)]
    /\ lister = api
    /\ cluster = {}
    /\ probeNodes = [c \in Claims |-> <<>>]
    /\ probeUsage = [c \in Claims |-> 0]
    /\ last = NoLast
    /\ input \in {[kind |-> "http", body |-> [kind |-> k, request |-> NoObj], sync |-> <<>>] :
                    k \in {"nil", "unreadable", "undecodable", "review"}}
                 \cup UNION {{[kind |-> "http",
                               body |-> [kind |-> "review",
                                         request |-> [uid |-> uid, object |-> req]],
                               sync |-> sync] : sync \in Syncs(req)} :
                             req \in GateRequests, uid \in {"u1", "u2"}}
    /\ output = NoObj

CallAdmitorHandle ==
    /\ input # NoObj /\ input.kind = "http" /\ output = NoObj
    /\ LET r == handle(pvc, api, lister, input.body, input.sync, now)
       IN  /\ api' = r.api
           /\ lister' = r.lister
           /\ output' = [kind |-> "http", written |-> r.written, panic |-> r.panic,
                         status |-> r.status, review |-> r.review]
    /\ UNCHANGED <<now, pvc, cluster, probeNodes, probeUsage, last, input>>

SpecHTTP == InitHTTPInputs /\ [][CallAdmitorHandle]_vars

\* C40: every request body that deserialises into an admission review
\* envelope gets an admission review response that carries the request's
\* UID and an explicit allowed/denied decision, an envelope whose request
\* part is absent included; the handler always writes a response.
C40_ReviewAlwaysAnswered ==
    (output # NoObj /\ input.kind = "http") =>
        /\ output.written
        /\ input.body.kind = "review" =>
              /\ output.review # NoObj
              /\ output.review.allowed \in BOOLEAN
              /\ input.body.request # NoObj => output.review.uid = input.body.request.uid

C40_Witness ==
    /\ output # NoObj /\ input.kind = "http"
    /\ input.body.kind = "review" /\ input.body.request = NoObj
    /\ output.panic /\ ~output.written /\ output.review = NoObj

====
